---- MODULE Spec2Model ----
EXTENDS Integers, Sequences, FiniteSets, TLC

(***************************************************************************)
(* Numbers.  A JavaScript number is modelled as an exact fraction <<n, d>> *)
(* in lowest terms with d > 0; <<0, 0>> is NaN and <<1, 0>>, <<-1, 0>> are *)
(* +Infinity and -Infinity.  The arithmetic of the samples is exact; the    *)
(* sample count of a trace and the running sum of generateStream round as  *)
(* binary floating point does (ToFloat).                                   *)
(***************************************************************************)
Abs(x) == IF x < 0 THEN -x ELSE x

RECURSIVE GCD(_, _)
GCD(a, b) == IF b = 0 THEN a ELSE GCD(b, a % b)

Sign(x) == IF x > 0 THEN 1 ELSE IF x < 0 THEN -1 ELSE 0

Num(n, d) ==
  IF d = 0 THEN <<Sign(n), 0>>
  ELSE LET g == GCD(Abs(n), Abs(d))
           s == Sign(d)
       IN  <<(s * n) \div g, (s * d) \div g>>

FromInt(n) == <<n, 1>>
NaN == <<0, 0>>
Infinity == <<1, 0>>
Zero == <<0, 1>>

IsNaN(a) == a = NaN
IsFinite(a) == a[2] # 0

Add(a, b) ==
  IF IsFinite(a) /\ IsFinite(b)
  THEN LET g == GCD(a[2], b[2])
       IN  Num(a[1] * (b[2] \div g) + b[1] * (a[2] \div g), (a[2] \div g) * b[2])
  ELSE IF IsNaN(a) \/ IsNaN(b) THEN NaN
  ELSE IF ~IsFinite(a) /\ ~IsFinite(b) /\ a # b THEN NaN
  ELSE IF ~IsFinite(a) THEN a ELSE b

Neg(a) == <<-a[1], a[2]>>
Sub(a, b) == Add(a, Neg(b))

Mul(a, b) ==
  IF IsFinite(a) /\ IsFinite(b)
  THEN LET g == GCD(Abs(a[1]), b[2])
           h == GCD(Abs(b[1]), a[2])
       IN  IF g = 0 \/ h = 0 THEN Zero
           ELSE Num((a[1] \div g) * (b[1] \div h), (a[2] \div h) * (b[2] \div g))
  ELSE <<Sign(a[1]) * Sign(b[1]), 0>>

Recip(a) == Num(a[2], a[1])
Div(a, b) == Mul(a, Recip(b))

\* a < b, a <= b, a > b as JavaScript evaluates them: false when either is NaN
Less(a, b) == ~IsNaN(a) /\ ~IsNaN(b) /\ a[1] * b[2] < b[1] * a[2]
LessEq(a, b) == ~IsNaN(a) /\ ~IsNaN(b) /\ a[1] * b[2] <= b[1] * a[2]
Greater(a, b) == Less(b, a)

\* Math.floor, Math.ceil and Math.round of a finite number, as integers
Floor(a) == a[1] \div a[2]
Ceil(a) == -((-a[1]) \div a[2])
Round(a) == Floor(Add(a, <<1, 2>>))

\* Math.min of two numbers
Min(a, b) == IF IsNaN(a) \/ IsNaN(b) THEN NaN ELSE IF Less(b, a) THEN b ELSE a

\* Math.max of two numbers
Max(a, b) == IF IsNaN(a) \/ IsNaN(b) THEN NaN ELSE IF Less(a, b) THEN b ELSE a

\* a % b for a >= 0 and b > 0 (NaN when either is NaN, a when b is Infinity)
Mod(a, b) ==
  IF IsNaN(a) \/ IsNaN(b) \/ ~IsFinite(a) \/ b[1] = 0 THEN NaN
  ELSE IF ~IsFinite(b) THEN a
  ELSE Sub(a, Mul(b, FromInt(Floor(Div(a, b)))))

\* Significant bits of a modelled floating-point number.  A double has 53; 9 leaves
\* the same remainder modulo 4, the period of the binary expansion of 1/10, so that
\* 1/10 rounds up here as it does in a double
Precision == 9

\* <<a, d, e>> with a / d scaled by the power of two that brings it into
\* [2^(Precision-1), 2^Precision), and e that power's exponent
RECURSIVE Normalize(_, _, _)
Normalize(a, d, e) ==
  IF a \div d >= 2 ^ Precision THEN Normalize(a, 2 * d, e + 1)
  ELSE IF a \div d < 2 ^ (Precision - 1)
       THEN IF d % 2 = 0 THEN Normalize(a, d \div 2, e - 1)
            ELSE Normalize(2 * a, d, e - 1)
  ELSE <<a, d, e>>

\* The floating-point number nearest to a (ties to the even significand): the result
\* of one arithmetic operation whose exact value is a
ToFloat(a) ==
  IF ~IsFinite(a) \/ a[1] = 0 THEN a
  ELSE LET s == Normalize(Abs(a[1]), a[2], 0)
           m == s[1] \div s[2]
           r == 2 * (s[1] % s[2])
           n == IF r > s[2] \/ (r = s[2] /\ m % 2 = 1) THEN m + 1 ELSE m
       IN  IF s[3] >= 0 THEN Num(Sign(a[1]) * n * (2 ^ s[3]), 1)
           ELSE Num(Sign(a[1]) * n, 2 ^ (-s[3]))


(***************************************************************************)
(* Parameters (models/ecgsyn).  A position is <<c, o>>, standing for       *)
(* c * Math.PI + o with c and o numbers.                                   *)
(***************************************************************************)
Wave(a, w, p) == [amplitude |-> a, width |-> w, position |-> p]
Pi(n, d) == <<Num(n, d), Zero>>
Shift(p, o) == <<p[1], Add(p[2], o)>>

DEFAULT_ECGSYN_PARAMS ==
  [P |-> Wave(Num(15, 100), Num(9, 100), Pi(-1, 3)),
   Q |-> Wave(Num(-25, 1000), Num(66, 1000), Pi(-1, 12)),
   R |-> Wave(Num(16, 10), Num(11, 100), Pi(0, 1)),
   S |-> Wave(Num(-25, 100), Num(66, 1000), Pi(1, 12)),
   T |-> Wave(Num(35, 100), Num(142, 1000), Pi(1, 2)),
   heartRate |-> FromInt(60),
   respiratoryRate |-> FromInt(15),
   respiratoryAmplitude |-> Num(1, 100)]

WaveNames == {"P", "Q", "R", "S", "T"}

\* The keys of PATHOLOGY_PARAMS (the baseline family)
BaselineKeys ==
  {"atrialFibrillation", "firstDegreeAVBlock", "ventricularTachycardia",
   "stemi", "bradycardia", "tachycardia"}

PATHOLOGY_PARAMS(pathology, base) ==
  CASE pathology = "atrialFibrillation" ->
         [base EXCEPT !.P = [base.P EXCEPT !.amplitude = Zero]]
    [] pathology = "firstDegreeAVBlock" ->
         [base EXCEPT !.P = [base.P EXCEPT !.position = Pi(-1, 2)]]
    [] pathology = "ventricularTachycardia" ->
         [base EXCEPT !.heartRate = FromInt(180),
                      !.Q = [base.Q EXCEPT !.width = Mul(base.Q.width, FromInt(2))],
                      !.R = [base.R EXCEPT !.width = Mul(base.R.width, FromInt(2))],
                      !.S = [base.S EXCEPT !.width = Mul(base.S.width, FromInt(2))]]
    [] pathology = "stemi" ->
         [base EXCEPT !.S = [base.S EXCEPT !.amplitude = Mul(base.S.amplitude, Num(1, 2))],
                      !.T = [base.T EXCEPT !.amplitude = Mul(base.T.amplitude, Num(3, 2)),
                                           !.position = Pi(1, 3)]]
    [] pathology = "bradycardia" -> [base EXCEPT !.heartRate = FromInt(45)]
    [] pathology = "tachycardia" -> [base EXCEPT !.heartRate = FromInt(120)]

\* The keys of ENHANCED_PATHOLOGY_PARAMS (the enhanced family)
EnhancedKeys ==
  {"normal", "atrialFibrillation", "firstDegreeAVBlock", "ventricularTachycardia",
   "stemi", "completeHeartBlock", "bradycardia", "tachycardia", "lbbb", "rbbb",
   "hyperkalemia", "hypokalemia", "lvh", "pericarditis"}

\* ENHANCED_PATHOLOGY_PARAMS[pathology](base); random is the value Math.random()
\* returns in the atrialFibrillation entry
ENHANCED_PATHOLOGY_PARAMS(pathology, base, random) ==
  CASE pathology = "normal" -> base
    [] pathology = "atrialFibrillation" ->
         [base EXCEPT !.P = Wave(Zero, Num(1, 100), base.P.position),
                      !.heartRate = Add(FromInt(90), Mul(random, FromInt(40)))]
    [] pathology = "firstDegreeAVBlock" ->
         [base EXCEPT !.P = [base.P EXCEPT !.position = Pi(-6, 10)]]
    [] pathology = "ventricularTachycardia" ->
         [base EXCEPT !.heartRate = FromInt(180),
                      !.P = Wave(Zero, Num(1, 100), base.P.position),
                      !.Q = Wave(Num(-4, 10), Num(15, 100), Shift(base.Q.position, Num(-1, 10))),
                      !.R = Wave(Num(25, 10), Num(2, 10), base.R.position),
                      !.S = Wave(Num(-8, 10), Num(15, 100), Shift(base.S.position, Num(1, 10))),
                      !.T = Wave(Num(-6, 10), Num(2, 10), base.T.position)]
    [] pathology = "stemi" ->
         [base EXCEPT !.Q = Wave(Num(-3, 10), Num(8, 100), base.Q.position),
                      !.R = [base.R EXCEPT !.amplitude = Mul(base.R.amplitude, Num(7, 10))],
                      !.S = Wave(Num(-5, 100), Num(3, 100), base.S.position),
                      !.T = Wave(Num(8, 10), Num(2, 10), Pi(1, 3))]
    [] pathology = "completeHeartBlock" ->
         [base EXCEPT !.heartRate = FromInt(40),
                      !.P = [base.P EXCEPT !.amplitude = Mul(base.P.amplitude, Num(12, 10))],
                      !.R = [base.R EXCEPT !.amplitude = Mul(base.R.amplitude, Num(13, 10))]]
    [] pathology = "bradycardia" ->
         [base EXCEPT !.heartRate = FromInt(45),
                      !.T = [base.T EXCEPT !.amplitude = Mul(base.T.amplitude, Num(12, 10)),
                                           !.width = Mul(base.T.width, Num(11, 10))]]
    [] pathology = "tachycardia" ->
         [base EXCEPT !.heartRate = FromInt(140),
                      !.P = [base.P EXCEPT !.amplitude = Mul(base.P.amplitude, Num(7, 10)),
                                           !.position = Pi(-1, 4)],
                      !.T = [base.T EXCEPT !.amplitude = Mul(base.T.amplitude, Num(8, 10)),
                                           !.width = Mul(base.T.width, Num(9, 10))]]
    [] pathology = "lbbb" ->
         [base EXCEPT !.Q = Wave(Zero, Num(1, 100), base.Q.position),
                      !.R = Wave(Num(18, 10), Num(18, 100), base.R.position),
                      !.S = Wave(Num(-1, 10), Num(18, 100), Shift(base.S.position, Num(15, 100))),
                      !.T = Wave(Num(-4, 10), base.T.width, base.T.position)]
    [] pathology = "rbbb" ->
         [base EXCEPT !.R = Wave(Num(12, 10), Num(6, 100), base.R.position),
                      !.S = Wave(Num(-8, 10), Num(12, 100), base.S.position),
                      !.T = Wave(Num(-3, 10), base.T.width, base.T.position)]
    [] pathology = "hyperkalemia" ->
         [base EXCEPT !.P = [base.P EXCEPT !.amplitude = Mul(base.P.amplitude, Num(1, 2)),
                                           !.width = Mul(base.P.width, Num(3, 2))],
                      !.Q = [base.Q EXCEPT !.width = Mul(base.Q.width, Num(13, 10))],
                      !.R = [base.R EXCEPT !.width = Mul(base.R.width, Num(13, 10))],
                      !.S = [base.S EXCEPT !.width = Mul(base.S.width, Num(13, 10))],
                      !.T = Wave(Num(12, 10), Num(8, 100), base.T.position)]
    [] pathology = "hypokalemia" ->
         [base EXCEPT !.T = Wave(Num(1, 10), Mul(base.T.width, Num(3, 2)), base.T.position)]
    [] pathology = "lvh" ->
         [base EXCEPT !.R = Wave(Num(28, 10), base.R.width, base.R.position),
                      !.S = Wave(Num(-12, 10), base.S.width, base.S.position),
                      !.T = Wave(Num(-3, 10), Mul(base.T.width, Num(11, 10)), base.T.position)]
    [] pathology = "pericarditis" ->
         [base EXCEPT !.P = [base.P EXCEPT !.amplitude = Mul(base.P.amplitude, Num(12, 10))],
                      !.S = Wave(Num(-5, 100), Num(2, 100), base.S.position),
                      !.T = Wave(Num(6, 10), Num(25, 100), Pi(2, 7))]


(***************************************************************************)
(* The state.                                                              *)
(***************************************************************************)
VARIABLES
  field,       \* the z values the integrated vector field yields, sample by sample
  generator,   \* the ECGGenerator object: [samplingRate |-> r], or NoGenerator
  thrown,      \* the message of the error the last call threw, "" if none
  pc,          \* "idle", or the call that has just returned
  result,      \* the value the last call returned
  generated,   \* how many times generate has run since the last call began
  stream,      \* the frame of the generateStream generator object, or NoStream
  delivered,   \* the chunks the stream has yielded to its consumer, in order
  pulls,       \* how many times the consumer has called next() on the stream
  solver,      \* the frame of the running solveODE call, or NoSolver
  heap         \* the parameter objects and the arrays of delivered chunks

vars ==
  <<field, generator, thrown, pc, result, generated, stream, delivered, pulls, solver,
    heap>>
streamVars == <<stream, delivered, pulls>>

NoGenerator == [samplingRate |-> <<>>]
NoResult == <<>>
NoStream == [at |-> "none"]
NoSolver == [at |-> "none"]
Undefined == <<>>

\* Math.exp(-y) for y >= 0, to three decimals at steps of 1/4
ExpMilli ==
  <<1000, 779, 607, 472, 368, 287, 223, 174, 135, 105, 82,
    64, 50, 39, 30, 24, 18, 14, 11, 9, 7>>
ExpNeg(y) ==
  LET q == Floor(Mul(y, FromInt(4)))
  IN  Num(ExpMilli[(IF q > 20 THEN 20 ELSE q) + 1], 1000)

\* Math.sin(2 * Math.PI * x): the piecewise linear curve through its zeros and extrema
Sin2Pi(x) ==
  IF ~IsFinite(x) THEN NaN
  ELSE LET p == Sub(x, FromInt(Floor(x)))
       IN  IF LessEq(p, Num(1, 4)) THEN Mul(FromInt(4), p)
           ELSE IF LessEq(p, Num(3, 4)) THEN Sub(FromInt(2), Mul(FromInt(4), p))
           ELSE Sub(Mul(FromInt(4), p), FromInt(4))

\* An array given element by element, as a sequence
Flat(array) == array \o <<>>

\* The k-th element (k >= 1) of a draw sequence that is read cyclically
Draw(seq, k) == seq[((k - 1) % Len(seq)) + 1]

(***************************************************************************)
(* math/ode-solver and models/ecgsyn: the integrator's resampled output    *)
(***************************************************************************)
\* solveODE with timePoints given: the uniform grid tInterp and the z component of
\* the states interpolateMulti returns for it (NaN when the grid spacing is 0 / 0).
\* timePoints = 0 is falsy: the recorded trajectory is returned as it is, and with
\* tf <= t0 that is the initial condition [1, 0, 0] at t0 alone.  A negative
\* timePoints leaves the grid empty
solveODE(func, t0, tf, timePoints) ==
  LET duration == Sub(tf, t0)
      tInterp == [i \in 1..timePoints |->
                    Add(t0, Div(Mul(FromInt(i - 1), duration), FromInt(timePoints - 1)))]
  IN  IF timePoints = 0
      THEN [t |-> <<t0>>, z |-> <<Zero>>]
      ELSE [t |-> tInterp,
            z |-> [i \in 1..timePoints |->
                     IF IsNaN(tInterp[i]) THEN NaN ELSE FromInt(Draw(func, i))]]

AMPLITUDE_SCALE == 80

\* const numPoints = Math.ceil(duration * samplingRate)
NumPoints(duration, samplingRate) == Ceil(ToFloat(Mul(duration, samplingRate)))

generateECGSyn(func, duration, samplingRate, params) ==
  LET numPoints == NumPoints(duration, samplingRate)
      solution == solveODE(func, Zero, duration, numPoints)
  IN  [time |-> Flat(solution.t),
       ecg |-> Flat([i \in 1..Len(solution.z) |->
                       Mul(solution.z[i], FromInt(AMPLITUDE_SCALE))])]


(***************************************************************************)
(* ECGGenerator: post-processing and noise                                 *)
(***************************************************************************)
addSTElevation(signal, time) ==
  LET beatDuration == Num(60, 70)
      lo == Mul(Num(35, 100), beatDuration)
      hi == Mul(Num(44, 100), beatDuration)
  IN  [i \in 1..Len(signal) |->
         LET t == Mod(time[i], beatDuration)
         IN  IF Greater(t, lo) /\ Less(t, hi)
             THEN LET stPhase == Div(Sub(t, lo), Mul(Num(9, 100), beatDuration))
                      d == Sub(stPhase, Num(1, 2))
                  IN  Add(signal[i],
                          Mul(Num(3, 10), ExpNeg(Mul(Mul(d, d), FromInt(10)))))
             ELSE signal[i]]

addUWaves(signal, time, heartRate) ==
  LET beatDuration == Div(FromInt(60), heartRate)
      lo == Mul(Num(65, 100), beatDuration)
      hi == Mul(Num(8, 10), beatDuration)
  IN  [i \in 1..Len(signal) |->
         LET t == Mod(time[i], beatDuration)
         IN  IF Greater(t, lo) /\ Less(t, hi)
             THEN LET uPhase == Div(Sub(t, lo), Mul(Num(15, 100), beatDuration))
                      d == Sub(uPhase, Num(1, 2))
                  IN  Add(signal[i],
                          Mul(Num(15, 100), ExpNeg(Div(Mul(d, d), Num(5, 100)))))
             ELSE signal[i]]

\* The six sinusoids of amplitude 0.02 each carry a fresh random phase, so their sum
\* is 0.02 * 6 * u for a drawn u in [-1, 1]
addFibrillatoryWaves(signal, time, u) ==
  [i \in 1..Len(signal) |->
     Add(signal[i], Add(Mul(Num(12, 100), FromInt(Draw(u, i))), Mul(Zero, time[i])))]

simulateAVDissociation(signal) == signal

\* The index at which the inner copy loop of makeIrregular stops: the first index
\* from sourceIndex on (0-based) that is time.length or whose time is not < endTime
CopyEnd(time, sourceIndex, endTime) ==
  LET stops == {j \in sourceIndex..Len(time) :
                  j >= Len(time) \/ ~Less(time[j + 1], endTime)}
  IN  IF sourceIndex >= Len(time) THEN sourceIndex
      ELSE CHOOSE j \in stops : \A k \in stops : j <= k

ResetSourceIndex(sourceIndex, avgRR, samplingRate) ==
  Floor(Div(FromInt(sourceIndex), Mul(avgRR, samplingRate)))
    * Floor(Mul(avgRR, samplingRate))

CopySegmentUnfilteredSignal(time, signal, avgRR, startTime, sourceIndex, stop) ==
  LET all == [k \in 1..(stop - sourceIndex) |-> sourceIndex + k]
      kept == SelectSeq(all,
                LAMBDA j : LessEq(Add(startTime, Mod(time[j], avgRR)), time[Len(time)]))
  IN  [time |-> [k \in 1..Len(kept) |-> Add(startTime, Mod(time[kept[k]], avgRR))],
       signal |-> [k \in 1..Len(all) |-> signal[all[k]]]]

\* What the inner copy loop pushes for source indices sourceIndex .. stop - 1
\* (0-based): only the samples whose adjusted time is <= the last source time
CopySegment(time, signal, avgRR, startTime, sourceIndex, stop) ==
  LET kept == SelectSeq([k \in 1..(stop - sourceIndex) |-> sourceIndex + k],
                LAMBDA j : LessEq(Add(startTime, Mod(time[j], avgRR)), time[Len(time)]))
  IN  [time |-> Flat([k \in 1..Len(kept) |->
                        Add(startTime, Mod(time[kept[k]], avgRR))]),
       signal |-> Flat([k \in 1..Len(kept) |-> signal[kept[k]]])]

\* The outer loop of makeIrregular, one beat per iteration
RECURSIVE Beats(_, _, _, _, _, _, _, _, _)
Beats(time, signal, avgRR, selfRate, rr, beat, currentTime, sourceIndex, out) ==
  IF Len(time) > 0 /\ Less(currentTime, time[Len(time)]) /\ sourceIndex < Len(signal) - 1
  THEN LET rrInterval == Mul(avgRR, Add(Num(4, 10), Mul(Draw(rr, beat), Num(11, 10))))
           endTime == Add(currentTime, rrInterval)
           stop == CopyEnd(time, sourceIndex, endTime)
           seg == CopySegment(time, signal, avgRR, currentTime, sourceIndex, stop)
       IN  Beats(time, signal, avgRR, selfRate, rr, beat + 1, endTime,
                 ResetSourceIndex(stop, avgRR, selfRate),
                 [time |-> out.time \o seg.time, signal |-> out.signal \o seg.signal])
  ELSE out

makeIrregular(selfRate, time, signal, baseHeartRate, rr) ==
  Beats(time, signal, Div(FromInt(60), baseHeartRate), selfRate, rr, 1, Zero, 0,
        [time |-> <<>>, signal |-> <<>>])

\* noise components are Undefined or <<amplitude, frequency>>; u holds the random
\* factors: (Math.random() - 0.5) * Math.sin(..) of the muscle artifact is u / 2 and
\* the Box-Muller variate of the Gaussian noise is u
addNoise(signal, time, noise, u) ==
  [i \in 1..Len(signal) |->
     LET b == IF noise.baseline = Undefined THEN signal[i]
              ELSE Add(signal[i], Mul(noise.baseline[1],
                                      Sin2Pi(Mul(noise.baseline[2], time[i]))))
         p == IF noise.powerline = Undefined THEN b
              ELSE Add(b, Mul(noise.powerline[1],
                              Sin2Pi(Mul(noise.powerline[2], time[i]))))
         m == IF noise.muscle = Undefined THEN p
              ELSE Add(p, Add(Mul(noise.muscle[1], Num(Draw(u, i + 1), 2)),
                              Mul(Zero, time[i])))
     IN  IF noise.gaussian = Undefined THEN m
         ELSE Add(m, Mul(noise.gaussian[1], FromInt(Draw(u, i + 2))))]


(***************************************************************************)
(* ECGGenerator.generate                                                   *)
(***************************************************************************)
\* A merge in which the fields of params win over those of customParams
SpreadUnder(params, customParams) ==
  [k \in DOMAIN params \cup DOMAIN customParams |->
     IF k \in DOMAIN params THEN params[k] ELSE customParams[k]]

\* { ...params, ...customParams }
Spread(params, customParams) ==
  [k \in DOMAIN params \cup DOMAIN customParams |->
     IF k \in DOMAIN customParams THEN customParams[k] ELSE params[k]]

OrDefault(option, default) == IF option = Undefined THEN default ELSE option

\* A pathology branch that would look in the baseline family first
ApplyPathologyBaselineFirst(pathology, params, random) ==
  IF pathology # "normal"
  THEN IF pathology \in BaselineKeys
       THEN PATHOLOGY_PARAMS(pathology, params)
       ELSE IF pathology \in EnhancedKeys
            THEN ENHANCED_PATHOLOGY_PARAMS(pathology, params, random)
            ELSE params
  ELSE params

\* The pathology branch of generate: the enhanced entry, else the baseline entry,
\* else the parameters as they are
ApplyPathology(pathology, params, random) ==
  IF pathology # "normal"
  THEN IF pathology \in EnhancedKeys
       THEN ENHANCED_PATHOLOGY_PARAMS(pathology, params, random)
       ELSE IF pathology \in BaselineKeys
            THEN PATHOLOGY_PARAMS(pathology, params)
            ELSE params
  ELSE params

\* A post-processing that adds the ST elevation under every pathology, on top of the
\* pathology's own step
PostProcessEvery(selfRate, pathology, time, ecg, heartRate, rnd) ==
  IF pathology = "stemi"
  THEN [time |-> time, signal |-> Flat(addSTElevation(ecg, time))]
  ELSE IF pathology = "hypokalemia"
  THEN [time |-> time,
        signal |-> Flat(addSTElevation(addUWaves(ecg, time, heartRate), time))]
  ELSE IF pathology = "atrialFibrillation"
  THEN makeIrregular(selfRate, time,
                     Flat(addSTElevation(addFibrillatoryWaves(ecg, time, rnd.u), time)),
                     heartRate, rnd.rr)
  ELSE [time |-> time, signal |-> Flat(addSTElevation(simulateAVDissociation(ecg), time))]

\* The post-processing branch of generate
PostProcess(selfRate, pathology, time, ecg, heartRate, rnd) ==
  IF pathology = "stemi"
  THEN [time |-> time, signal |-> Flat(addSTElevation(ecg, time))]
  ELSE IF pathology = "hypokalemia"
  THEN [time |-> time, signal |-> Flat(addUWaves(ecg, time, heartRate))]
  ELSE IF pathology = "atrialFibrillation"
  THEN makeIrregular(selfRate, time, Flat(addFibrillatoryWaves(ecg, time, rnd.u)),
                     heartRate, rnd.rr)
  ELSE IF pathology = "completeHeartBlock"
  THEN [time |-> time, signal |-> simulateAVDissociation(ecg)]
  ELSE [time |-> time, signal |-> ecg]

\* The parameters generate hands to generateECGSyn: the defaults with the heart rate
\* option, then the pathology transform, then customParams spread over the result
generateParams(options, random) ==
  LET heartRate == OrDefault(options.heartRate, FromInt(60))
      base == [DEFAULT_ECGSYN_PARAMS EXCEPT !.heartRate = heartRate]
      adjusted == ApplyPathology(options.pathology, base, random)
  IN  IF options.customParams # Undefined
      THEN Spread(adjusted, options.customParams) ELSE adjusted

\* The end of generate: the noise, and the result object
generateResult(options, rnd, samplingRate, params, post) ==
  [samplingRate |-> samplingRate,
   time |-> post.time,
   signal |-> IF options.noise # Undefined
              THEN Flat(addNoise(post.signal, post.time, options.noise, rnd.u))
              ELSE post.signal,
   metadata |-> [heartRate |-> params.heartRate,
                 pathology |-> options.pathology,
                 duration |-> OrDefault(options.duration, FromInt(10)),
                 noise |-> options.noise]]

\* A generate that adds the noise to the clean trace and runs the post-processing of
\* the pathology on the noisy one
generateNoiseFirst(selfRate, options, rnd, samplingRate, params, clean) ==
  [generateResult([options EXCEPT !.noise = Undefined], rnd, samplingRate, params,
                  PostProcess(selfRate, options.pathology, clean.time,
                              IF options.noise # Undefined
                              THEN Flat(addNoise(clean.ecg, clean.time, options.noise,
                                                 rnd.u))
                              ELSE clean.ecg,
                              params.heartRate, rnd))
     EXCEPT !.metadata.noise = options.noise]

\* The pathology-specific post-processing of the clean trace, and what follows
generatePost(selfRate, options, rnd, samplingRate, params, clean) ==
  generateResult(options, rnd, samplingRate, params,
                 PostProcess(selfRate, options.pathology, clean.time, clean.ecg,
                             params.heartRate, rnd))

\* The clean trace of generateECGSyn, and what follows
generateClean(func, selfRate, options, rnd, samplingRate, params) ==
  generatePost(selfRate, options, rnd, samplingRate, params,
               generateECGSyn(func, OrDefault(options.duration, FromInt(10)),
                              samplingRate, params))

\* generate(options) on a generator constructed with sampling rate selfRate; rnd holds
\* the values drawn from Math.random() in the call
generate(func, selfRate, options, rnd) ==
  generateClean(func, selfRate, options, rnd,
                OrDefault(options.samplingRate, selfRate),
                generateParams(options, rnd.hr))


(***************************************************************************)
(* Parameter objects.  heap holds the objects a call can reach, in order   *)
(* of allocation, and a reference is an index into it.  A parameters       *)
(* object holds a reference for each of its waves and a number for each    *)
(* other field; a wave object holds its three numbers.                     *)
(***************************************************************************)
WaveOrder == <<"P", "Q", "R", "S", "T">>

\* The parameters an object stands for
Deref(h, ref) ==
  [k \in DOMAIN h[ref] |-> IF k \in WaveNames THEN h[h[ref][k]] ELSE h[ref][k]]

\* An object literal with the fields of value: the waves in shared are taken over by
\* reference (they come from a spread), the other waves are new wave objects, and a
\* wave that is undefined is no object
NewObject(h, value, shared) ==
  LET fresh == SelectSeq(WaveOrder,
                         LAMBDA w : /\ w \in DOMAIN value
                                    /\ w \notin DOMAIN shared
                                    /\ value[w] # Undefined)
      place(w) == CHOOSE i \in 1..Len(fresh) : fresh[i] = w
      waves == [i \in 1..Len(fresh) |-> value[fresh[i]]]
      object == [k \in DOMAIN value |->
                   IF k \notin WaveNames \/ value[k] = Undefined THEN value[k]
                   ELSE IF k \in DOMAIN shared THEN shared[k]
                   ELSE Len(h) + place(k)]
  IN  [heap |-> Append(h \o waves, object), ref |-> Len(h) + Len(fresh) + 1]

\* The module-level constant DEFAULT_ECGSYN_PARAMS and its five wave objects
InitialHeap == NewObject(<<>>, DEFAULT_ECGSYN_PARAMS, <<>>).heap
DefaultRef == Len(InitialHeap)

\* The waves an entry of a family writes out as object literals
Rewritten(family, pathology) ==
  IF family = "enhanced"
  THEN CASE pathology \in {"atrialFibrillation", "firstDegreeAVBlock"} -> {"P"}
         [] pathology \in {"ventricularTachycardia", "hyperkalemia"} -> WaveNames
         [] pathology \in {"stemi", "lbbb"} -> {"Q", "R", "S", "T"}
         [] pathology = "completeHeartBlock" -> {"P", "R"}
         [] pathology \in {"bradycardia", "hypokalemia"} -> {"T"}
         [] pathology = "tachycardia" -> {"P", "T"}
         [] pathology \in {"rbbb", "lvh"} -> {"R", "S", "T"}
         [] pathology = "pericarditis" -> {"P", "S", "T"}
         [] OTHER -> {}
  ELSE CASE pathology \in {"atrialFibrillation", "firstDegreeAVBlock"} -> {"P"}
         [] pathology = "ventricularTachycardia" -> {"Q", "R", "S"}
         [] pathology = "stemi" -> {"S", "T"}
         [] OTHER -> {}

\* Transforms that remove a wave by giving it no width as well as no amplitude
TransformValueFlat(family, pathology, base, random) ==
  LET value == IF family = "enhanced"
               THEN ENHANCED_PATHOLOGY_PARAMS(pathology, base, random)
               ELSE PATHOLOGY_PARAMS(pathology, base)
  IN  [k \in DOMAIN value |->
         IF k \in WaveNames /\ value[k].amplitude = Zero
         THEN [value[k] EXCEPT !.width = Zero] ELSE value[k]]

TransformValue(family, pathology, base, random) ==
  IF family = "enhanced"
  THEN ENHANCED_PATHOLOGY_PARAMS(pathology, base, random)
  ELSE PATHOLOGY_PARAMS(pathology, base)

\* A transform that would assign the adjusted values to the fields of base and of its
\* wave objects
transformInPlace(h, family, pathology, base, random) ==
  LET value == TransformValue(family, pathology, Deref(h, base), random)
      edited == [id \in 1..Len(h) |->
                   IF id = base THEN [h[base] EXCEPT !.heartRate = value.heartRate]
                   ELSE IF \E w \in Rewritten(family, pathology) : h[base][w] = id
                   THEN value[CHOOSE w \in Rewritten(family, pathology) : h[base][w] = id]
                   ELSE h[id]]
  IN  [heap |-> edited, ref |-> base]

\* FAMILY[pathology](base) on objects: 'normal' returns base itself, every other entry
\* returns ({ ...base, <the waves it rewrites>, <heartRate> })
transform(h, family, pathology, base, random) ==
  IF family = "enhanced" /\ pathology = "normal"
  THEN [heap |-> h, ref |-> base]
  ELSE NewObject(h, TransformValue(family, pathology, Deref(h, base), random),
                 [w \in WaveNames \ Rewritten(family, pathology) |-> h[base][w]])

\* The caller's customParams object, written as a literal before the call
CallerHeap(h, options) ==
  IF options.customParams = Undefined
  THEN h ELSE NewObject(h, options.customParams, <<>>).heap
CallerRef(h, options) ==
  IF options.customParams = Undefined
  THEN 0 ELSE NewObject(h, options.customParams, <<>>).ref

\* The pathology branch of generate on objects; params is the object made so far and
\* the heap it lives in
ApplyPathologyObject(pathology, params, random) ==
  IF pathology # "normal"
  THEN IF pathology \in EnhancedKeys
       THEN transform(params.heap, "enhanced", pathology, params.ref, random)
       ELSE IF pathology \in BaselineKeys
            THEN transform(params.heap, "baseline", pathology, params.ref, random)
            ELSE params
  ELSE params

\* { ...params, ...customParams } on objects: a new object that shares the waves of
\* both
SpreadObjects(params, custom) ==
  IF custom # 0
  THEN NewObject(params.heap,
                 Spread(Deref(params.heap, params.ref), Deref(params.heap, custom)),
                 [w \in WaveNames |->
                    IF w \in DOMAIN params.heap[custom] THEN params.heap[custom][w]
                    ELSE params.heap[params.ref][w]])
  ELSE params

\* The objects generate makes on the way to the parameters it hands to
\* generateECGSyn; custom is the reference of the caller's customParams, 0 without
generateObjects(h, options, custom, random) ==
  SpreadObjects(
    ApplyPathologyObject(
      options.pathology,
      NewObject(h, [Deref(h, DefaultRef) EXCEPT
                      !.heartRate = OrDefault(options.heartRate, FromInt(60))],
                [w \in WaveNames |-> h[DefaultRef][w]]),
      random),
    custom)

\* The first kept objects of h: what is still reachable once the objects a call made
\* for itself are dropped
Reachable(h, kept) == SubSeq(h, 1, kept)

\* The heap a call of generate leaves while its parameters are in use
generateHeap(h, options, random) ==
  generateObjects(CallerHeap(h, options), options, CallerRef(h, options), random).heap

(***************************************************************************)
(* Inputs                                                                  *)
(***************************************************************************)
PatLen == 1
RndLen == 2
MaxPulls == 11

MinSamplingRate == 250

ZVals == {-2, 3}
Fields == [1..PatLen -> ZVals]

\* values Math.random() returns, and the random factors of the noise terms
RandVals == {Zero, Num(3, 4)}
UnitVals == {-1, 1}

CtorRates == {Undefined, FromInt(100), FromInt(249), FromInt(250), FromInt(500)}

Pathologies == EnhancedKeys \cup {"wpw"}

ShortDurations == {Num(1, 250), Num(9, 1000), Num(1, 50)}
LongDuration == FromInt(1)

NoiseComponents == {"baseline", "powerline", "muscle", "gaussian"}

\* The NoiseOptions object with the components in on
NoiseOf(on) ==
  [baseline |-> IF "baseline" \in on THEN <<Num(1, 20), Num(1, 2)>> ELSE Undefined,
   powerline |-> IF "powerline" \in on THEN <<Num(1, 100), FromInt(50)>> ELSE Undefined,
   muscle |-> IF "muscle" \in on THEN <<Num(1, 50)>> ELSE Undefined,
   gaussian |-> IF "gaussian" \in on THEN <<Num(1, 10)>> ELSE Undefined]
GaussianNoise == NoiseOf({"gaussian"})
Noises == {NoiseOf(on) : on \in SUBSET NoiseComponents}

Options(d, hr, p, n, c, sr) ==
  [heartRate |-> hr, pathology |-> p, samplingRate |-> sr, duration |-> d,
   noise |-> n, customParams |-> c]

\* <<heartRate option, customParams option>>
RateChoices ==
  {<<Undefined, Undefined>>, <<FromInt(70), Undefined>>,
   <<FromInt(70), [heartRate |-> FromInt(120)]>>}

\* Calls whose samplingRate option is below the constructor's minimum
LowRateOptions ==
  {Options(Num(1, 50), Undefined, p, Undefined, Undefined, sr) :
     p \in {"normal", "stemi"}, sr \in {FromInt(100), FromInt(249)}}

\* customParams that replace one wave by one of width w
WidthParams(w) ==
  {[P |-> Wave(Num(15, 100), w, Pi(-1, 3))], [R |-> Wave(Num(16, 10), w, Pi(0, 1))]}

\* Calls with a duration, a heart rate or a wave width that is zero or negative
InvalidOptions ==
  {Options(d, Undefined, "normal", Undefined, Undefined, Undefined) :
     d \in {Zero, Num(-1, 50)}}
  \cup
  {Options(Num(1, 50), hr, "normal", Undefined, Undefined, Undefined) :
     hr \in {Zero, FromInt(-60)}}
  \cup
  {Options(Num(1, 50), Undefined, "normal", Undefined, [heartRate |-> Zero], Undefined)}
  \cup
  {Options(Num(1, 50), Undefined, p, Undefined, c, Undefined) :
     p \in {"normal", "lbbb"}, c \in WidthParams(Zero) \cup WidthParams(Num(-1, 10))}

\* Half a second of atrial fibrillation at 250 Hz: one beat at 120 bpm, with the rate
\* left to the transform and with a rate in customParams, and with baseline wander
HalfSecondOptions ==
  {Options(Num(1, 2), hc[1], "atrialFibrillation", Undefined, hc[2], FromInt(250)) :
     hc \in {<<Undefined, Undefined>>, <<FromInt(70), [heartRate |-> FromInt(120)]>>}}
  \cup
  {Options(Num(1, 2), Undefined, "atrialFibrillation", NoiseOf({"baseline"}), Undefined,
           FromInt(250))}

\* Short noise-free traces under every pathology, short noisy traces under every
\* combination of noise components, one-second traces at 250 Hz, and the calls with
\* a low sampling rate or an invalid parameter
GenerateOptions ==
  {Options(d, hc[1], p, Undefined, hc[2], sr) :
     d \in ShortDurations, hc \in RateChoices, p \in Pathologies,
     sr \in {Undefined, FromInt(250)}}
  \cup
  {Options(Num(1, 50), Undefined, p, n, Undefined, Undefined) :
     p \in {"normal", "stemi", "atrialFibrillation"}, n \in Noises}
  \cup
  {Options(LongDuration, Undefined, p, n, Undefined, FromInt(250)) :
     p \in {"normal", "atrialFibrillation"}, n \in {Undefined, GaussianNoise}}
  \cup
  {Options(LongDuration, Undefined, p, Undefined, Undefined, FromInt(250)) :
     p \in {"stemi", "hypokalemia", "completeHeartBlock"}}
  \cup LowRateOptions \cup InvalidOptions \cup HalfSecondOptions

UsesU(options) ==
  \/ options.pathology = "atrialFibrillation"
  \/ options.noise # Undefined
     /\ (options.noise.muscle # Undefined \/ options.noise.gaussian # Undefined)

NoDraws == [k \in 1..RndLen |-> Zero]
NoUnits == [k \in 1..RndLen |-> 0]

\* Random factors that change sign from one sample to the next
Alternating == [k \in 1..RndLen |-> IF k % 2 = 1 THEN 1 ELSE -1]

\* The draws a call with these options can see; in a one-second trace every beat
\* draws the same RR factor and every sample the same noise factor, and in a
\* half-second trace the factors are the same for every sample or alternate
Rnds(options) ==
  IF options.duration = LongDuration \/ options \in HalfSecondOptions
  THEN {[u |-> u, rr |-> [k \in 1..RndLen |-> r], hr |-> h] :
          h \in IF options.pathology = "atrialFibrillation" THEN RandVals ELSE {Zero},
          r \in IF options.pathology = "atrialFibrillation" THEN RandVals ELSE {Zero},
          u \in IF options \in HalfSecondOptions
                THEN {[k \in 1..RndLen |-> 1], Alternating}
                ELSE {[k \in 1..RndLen |-> 1]}}
  ELSE {[u |-> u, rr |-> r, hr |-> h] :
          h \in IF options.pathology = "atrialFibrillation" THEN RandVals ELSE {Zero},
          r \in IF options.pathology = "atrialFibrillation"
                THEN [1..RndLen -> RandVals] ELSE {NoDraws},
          u \in IF UsesU(options) THEN [1..RndLen -> UnitVals] ELSE {NoUnits}}

(***************************************************************************)
(* Actions                                                                 *)
(***************************************************************************)
Init ==
  /\ field \in Fields
  /\ generator = NoGenerator
  /\ thrown = ""
  /\ pc = "idle"
  /\ result = NoResult
  /\ generated = 0
  /\ stream = NoStream
  /\ delivered = <<>>
  /\ pulls = 0
  /\ solver = NoSolver
  /\ heap = InitialHeap

ConstructThrowsAtMinimum(samplingRate) == LessEq(samplingRate, FromInt(MinSamplingRate))
\* if (samplingRate < 250) throw
ConstructThrows(samplingRate) == Less(samplingRate, FromInt(MinSamplingRate))

\* new ECGGenerator(samplingRate); the parameter defaults to 1000
Construct(samplingRate) ==
  /\ pc = "idle"
  /\ generator = NoGenerator
  /\ \E rate \in {OrDefault(samplingRate, FromInt(1000))} :
       /\ IF ConstructThrows(rate)
          THEN /\ thrown' = "Sampling rate must be at least 250 Hz for ECG generation"
               /\ UNCHANGED generator
          ELSE /\ thrown' = ""
               /\ generator' = [samplingRate |-> rate]
       /\ result' = [samplingRate |-> rate]
  /\ pc' = "constructed"
  /\ UNCHANGED <<field, generated, streamVars, solver, heap>>

\* generator.generate(options)
Generate(options, rnd) ==
  /\ pc = "idle"
  /\ generator # NoGenerator
  /\ result' = [rnd |-> rnd, options |-> options,
                value |-> generate(field, generator.samplingRate, options, rnd)]
  /\ generated' = 1
  /\ thrown' = ""
  /\ pc' = "generate"
  /\ heap' = generateHeap(heap, options, rnd.hr)
  /\ UNCHANGED <<field, generator, streamVars, solver>>

\* The caller takes the returned value or the error; the next call can begin
Return ==
  /\ pc # "idle"
  /\ pc' = "idle"
  /\ result' = NoResult
  /\ thrown' = ""
  /\ generated' = 0
  /\ stream' = NoStream
  /\ delivered' = <<>>
  /\ pulls' = 0
  /\ solver' = NoSolver
  /\ heap' = Reachable(heap, Len(InitialHeap))
  /\ UNCHANGED <<field, generator>>

Next ==
  \/ \E r \in CtorRates : Construct(r)
  \/ \E o \in GenerateOptions : \E rnd \in Rnds(o) : Generate(o, rnd)
  \/ Return

Spec == Init /\ [][Next]_vars


(***************************************************************************)
(* ECGGenerator.generateMultiLead                                          *)
(***************************************************************************)
LeadScalars ==
  [I |-> Num(8, 10), III |-> Num(6, 10), aVR |-> Num(-5, 10), aVL |-> Num(4, 10),
   aVF |-> Num(7, 10), V1 |-> Num(3, 10), V2 |-> Num(5, 10), V3 |-> Num(8, 10),
   V4 |-> FromInt(1), V5 |-> Num(9, 10), V6 |-> Num(7, 10)]

leadTransformUpright(lead, signal) ==
  IF lead \in DOMAIN LeadScalars
  THEN [i \in 1..Len(signal) |-> Mul(signal[i], <<Abs(LeadScalars[lead][1]), LeadScalars[lead][2]>>)]
  ELSE signal

leadTransformLimbSwap(lead, signal) ==
  IF lead \in DOMAIN LeadScalars
  THEN [i \in 1..Len(signal) |->
          Mul(signal[i], LeadScalars[IF lead = "aVF" THEN "aVL" ELSE lead])]
  ELSE signal

\* leadTransforms[lead] || ((s) => s), applied to the source signal: 'II' and every
\* name outside the table return the signal itself
leadTransform(lead, signal) ==
  IF lead \in DOMAIN LeadScalars
  THEN [i \in 1..Len(signal) |-> Mul(signal[i], LeadScalars[lead])]
  ELSE signal

Range(seq) == {seq[i] : i \in DOMAIN seq}

\* generateMultiLead given the trace leadII its one generate call returned
generateMultiLead(leadII, leads) ==
  [lead \in Range(leads) |->
     [leadII EXCEPT !.signal = Flat(leadTransform(lead, leadII.signal))]]

LeadNames == DOMAIN LeadScalars \cup {"II", "X"}
DefaultLeads == <<"I", "II", "III", "aVR", "aVL", "aVF">>
\* Every single lead, the pairs (repeats included) of three leads, and the default
LeadLists ==
  {<<l>> : l \in LeadNames}
  \cup {<<a, b>> : a \in {"I", "II", "aVR"}, b \in {"I", "II", "aVR"}}
  \cup {DefaultLeads}

LeadOptions ==
  {Options(d, Undefined, p, n, Undefined, Undefined) :
     d \in {Num(1, 250), Num(1, 50)}, p \in {"normal", "stemi"},
     n \in {Undefined, GaussianNoise}}

\* generator.generateMultiLead(options, leads)
MultiLead(options, leads, rnd) ==
  /\ pc = "idle"
  /\ generator # NoGenerator
  /\ \E leadII \in {generate(field, generator.samplingRate, options, rnd)} :
       result' = [rnd |-> rnd, options |-> options,
                  value |-> generateMultiLead(leadII, leads),
                  leads |-> leads, source |-> leadII]
  /\ generated' = 1
  /\ thrown' = ""
  /\ pc' = "leads"
  /\ heap' = generateHeap(heap, options, rnd.hr)
  /\ UNCHANGED <<field, generator, streamVars, solver>>

InitLeads ==
  /\ field \in [1..(PatLen + 1) -> ZVals]
  /\ generator = NoGenerator
  /\ thrown = ""
  /\ pc = "idle"
  /\ result = NoResult
  /\ generated = 0
  /\ stream = NoStream
  /\ delivered = <<>>
  /\ pulls = 0
  /\ solver = NoSolver
  /\ heap = InitialHeap

NextLeads ==
  \/ \E r \in CtorRates : Construct(r)
  \/ \E o \in LeadOptions : \E l \in LeadLists : \E rnd \in Rnds(o) : MultiLead(o, l, rnd)
  \/ Return

SpecLeads == InitLeads /\ [][NextLeads]_vars

(***************************************************************************)
(* ECGGenerator.generateStream                                             *)
(***************************************************************************)
TotalDurationDefaultTen(options) ==
  IF options.duration = Undefined \/ options.duration = Zero
  THEN FromInt(10) ELSE options.duration

\* options.duration || Infinity
TotalDuration(options) ==
  IF options.duration = Undefined \/ options.duration = Zero
  THEN Infinity ELSE options.duration

\* generator.generateStream(options, chunkDuration): the generator object is created,
\* none of its body has run.  rnd holds the values Math.random() will return to each
\* chunk
StartStream(options, chunkDuration, rnd) ==
  /\ pc = "idle"
  /\ generator # NoGenerator
  /\ stream' = [at |-> "start", rnd |-> rnd, options |-> options,
                chunkDuration |-> chunkDuration,
                totalDuration |-> Undefined, generatedDuration |-> Undefined,
                currentChunkDuration |-> Undefined]
  /\ delivered' = <<>>
  /\ pulls' = 0
  /\ generated' = 0
  /\ pc' = "stream"
  /\ thrown' = ""
  /\ result' = NoResult
  /\ heap' = CallerHeap(heap, options)
  /\ UNCHANGED <<field, generator, solver>>

\* A stream whose chunks carry on from where the stream has got to: the samples of a
\* chunk depend on the duration generated before it
ShiftTimeCarry(chunk, generatedDuration) ==
  [chunk EXCEPT
     !.time = Flat([i \in 1..Len(chunk.time) |-> Add(chunk.time[i], generatedDuration)]),
     !.signal = Flat([i \in 1..Len(chunk.signal) |->
                        Add(chunk.signal[i], generatedDuration)])]

\* chunk.time.map(t => t + generatedDuration)
ShiftTime(chunk, generatedDuration) ==
  [chunk EXCEPT !.time =
     Flat([i \in 1..Len(chunk.time) |-> Add(chunk.time[i], generatedDuration)])]

\* generate throws when a wave of the parameters is undefined and the integrator
\* evaluates the vector field, which reads wave.position
WaveTypeError == "Cannot read properties of undefined (reading 'position')"
generateThrows(options, random) ==
  /\ \E w \in WaveNames : generateParams(options, random)[w] = Undefined
  /\ Greater(OrDefault(options.duration, FromInt(10)), Zero)

\* A variant that would write every chunk into the arrays of the first one
ChunkHeapShared(h, options, random, chunk) ==
  IF Len(h) > Len(CallerHeap(InitialHeap, options))
  THEN [h EXCEPT ![Len(CallerHeap(InitialHeap, options)) + 1] = chunk.time,
                 ![Len(CallerHeap(InitialHeap, options)) + 2] = chunk.signal]
  ELSE h \o <<chunk.time, chunk.signal>>

\* The heap after a chunk is generated: the objects generate made for itself are
\* dropped, the chunk's time array (made by map) and signal array are new
ChunkHeap(h, options, random, chunk) ==
  Reachable(generateObjects(h, options, CallerRef(InitialHeap, options), random).heap,
            Len(h))
  \o <<chunk.time, chunk.signal>>

\* stream.next(): the body runs from where it is suspended to the next yield or to its
\* end
Pull ==
  /\ pc = "stream"
  /\ stream.at \in {"start", "yield"}
  /\ pulls < MaxPulls
  /\ pulls' = pulls + 1
  /\ \E totalDuration \in {IF stream.at = "start" THEN TotalDuration(stream.options)
                           ELSE stream.totalDuration} :
     \E generatedDuration \in
          {IF stream.at = "start" THEN Zero
           ELSE ToFloat(Add(stream.generatedDuration, stream.currentChunkDuration))} :
       IF Less(generatedDuration, totalDuration)
       THEN \E currentChunkDuration \in
                 {Min(stream.chunkDuration,
                      ToFloat(Sub(totalDuration, generatedDuration)))} :
              IF generateThrows([stream.options EXCEPT
                                   !.duration = currentChunkDuration], stream.rnd.hr)
              THEN /\ thrown' = WaveTypeError
                   /\ stream' = [stream EXCEPT
                                   !.totalDuration = totalDuration,
                                   !.generatedDuration = generatedDuration,
                                   !.currentChunkDuration = currentChunkDuration,
                                   !.at = "done"]
                   /\ generated' = generated + 1
                   /\ result' = NoResult
                   /\ UNCHANGED <<delivered, heap>>
              ELSE \E chunk \in
                        {generate(field, generator.samplingRate,
                                  [stream.options EXCEPT
                                     !.duration = currentChunkDuration],
                                  stream.rnd)} :
                     /\ stream' = [stream EXCEPT
                                     !.totalDuration = totalDuration,
                                     !.generatedDuration = generatedDuration,
                                     !.currentChunkDuration = currentChunkDuration,
                                     !.at = "yield"]
                     /\ delivered' =
                          Append(delivered, ShiftTime(chunk, generatedDuration))
                     /\ heap' = ChunkHeap(heap, stream.options, stream.rnd.hr,
                                          ShiftTime(chunk, generatedDuration))
                     /\ generated' = generated + 1
                     /\ result' = [done |-> FALSE]
                     /\ UNCHANGED thrown
       ELSE /\ stream' = [stream EXCEPT !.totalDuration = totalDuration,
                                        !.generatedDuration = generatedDuration,
                                        !.at = "done"]
            /\ result' = [done |-> TRUE]
            /\ UNCHANGED <<delivered, generated, heap, thrown>>
  /\ UNCHANGED <<field, generator, pc, solver>>

\* Streams of short chunks whose durations are exact in binary, bounded and unbounded;
\* unbounded streams of one-second chunks at 250 Hz; and one second in chunks of a
\* tenth of a second
StreamCalls ==
  {<<Options(d, Undefined, p, Undefined, Undefined, Undefined), c>> :
     d \in {Undefined, Zero, Num(1, 64)}, p \in {"normal", "atrialFibrillation"},
     c \in {Num(1, 128), Num(3, 512), Num(1, 32)}}
  \cup
  {<<Options(Undefined, FromInt(70), p, Undefined, Undefined, FromInt(250)), FromInt(1)>> :
     p \in {"normal", "stemi", "atrialFibrillation"}}
  \cup
  {<<Options(FromInt(1), Undefined, "normal", Undefined, Undefined, FromInt(250)),
     ToFloat(Num(1, 10))>>}

\* The draws of the chunks of a stream: every beat draws the same RR factor
StreamRnds(options) ==
  {[u |-> [k \in 1..RndLen |-> 1], rr |-> [k \in 1..RndLen |-> r], hr |-> Num(3, 4)] :
     r \in IF options.pathology = "atrialFibrillation" THEN RandVals ELSE {Zero}}

NextStream ==
  \/ \E r \in CtorRates : Construct(r)
  \/ \E call \in StreamCalls : \E rnd \in StreamRnds(call[1]) :
       StartStream(call[1], call[2], rnd)
  \/ Pull
  \/ Return

SpecStream == Init /\ [][NextStream]_vars

\* customParams whose R wave is undefined
MalformedParams == [R |-> Undefined]

\* The consumer assigns to customParams of the options object it handed to
\* generateStream; the body reads the object again for every chunk
SetCustomParams(customParams) ==
  /\ pc = "stream"
  /\ stream.at \in {"start", "yield"}
  /\ stream.options.customParams # customParams
  /\ stream' = [stream EXCEPT !.options.customParams = customParams]
  /\ UNCHANGED <<field, generator, thrown, pc, result, generated, delivered, pulls,
                 solver, heap>>

\* Bounded and unbounded streams, with well-formed options or malformed from the start
StreamErrorCalls ==
  {<<Options(d, Undefined, "normal", Undefined, c, Undefined), Num(1, 128)>> :
     d \in {Undefined, Num(1, 64), Num(3, 128)}, c \in {Undefined, MalformedParams}}

NextStreamErrors ==
  \/ \E r \in CtorRates : Construct(r)
  \/ \E call \in StreamErrorCalls : \E rnd \in StreamRnds(call[1]) :
       StartStream(call[1], call[2], rnd)
  \/ SetCustomParams(MalformedParams)
  \/ Pull
  \/ Return

SpecStreamErrors == Init /\ [][NextStreamErrors]_vars

(***************************************************************************)
(* math/ode-solver: the adaptive stepping loop of solveODE.  Times and step *)
(* sizes are floating-point numbers (ToFloat); the state is one number,     *)
(* and the estimates rk45Step returns for the vector field are inputs.      *)
(***************************************************************************)
MaxIterations == 7

\* The smallest positive floating-point number is 2 ^ -Underflow
Underflow == 9

\* The floating-point result of an operation whose exact value is a: a result closer
\* to zero than the smallest positive number underflows to 0
Float(a) ==
  IF /\ IsFinite(a) /\ a[1] # 0
     /\ \/ a[2] \div (2 ^ Underflow) > Abs(a[1])
        \/ a[2] \div (2 ^ Underflow) = Abs(a[1]) /\ a[2] % (2 ^ Underflow) > 0
  THEN Zero ELSE ToFloat(a)

\* q to the k-th power
RECURSIVE Power(_, _)
Power(q, k) == IF k = 0 THEN FromInt(1) ELSE Mul(q, Power(q, k - 1))

\* The values Math.pow(r, 1 / k) is rounded down to
RootGrid == {Num(1, 10), Num(1, 6), FromInt(1), FromInt(3)}

\* Math.pow(r, 1 / k) for k = 4 and k = 5: NaN for a negative base, Infinity for an
\* infinite one, and otherwise the root rounded down to RootGrid (exact for the fifth
\* roots of 1 / 7776, 1 and 243 and for the fourth root of 1)
Root(r, k) ==
  IF IsNaN(r) THEN NaN
  ELSE IF ~IsFinite(r) THEN Infinity
  ELSE IF Less(r, Zero) THEN NaN
  ELSE LET below == {q \in RootGrid : LessEq(Power(q, k), r)}
       IN  IF below = {} THEN Zero
           ELSE CHOOSE q \in below : \A p \in below : LessEq(p, q)

\* Math.min(2.0, 0.9 * Math.pow(tolerance / errorNorm, 0.2))
GrowFactor(tolerance, errorNorm) ==
  Min(FromInt(2), Mul(Num(9, 10), Root(Div(tolerance, errorNorm), 5)))

\* Math.max(0.1, 0.9 * Math.pow(tolerance / errorNorm, 0.25))
ShrinkFactor(tolerance, errorNorm) ==
  Max(Num(1, 10), Mul(Num(9, 10), Root(Div(tolerance, errorNorm), 4)))

\* if (currentT + stepSize > tf) stepSize = tf - currentT
Clamp(currentT, stepSize, tf) ==
  IF Greater(Float(Add(currentT, stepSize)), tf)
  THEN Float(Sub(tf, currentT)) ELSE stepSize

\* errorNorm < tolerance || stepSize <= minStepSize
Accepts(errorNorm, tolerance, stepSize, minStepSize) ==
  Less(errorNorm, tolerance) \/ LessEq(stepSize, minStepSize)

\* Whether a number that may be missing counts as true in a condition: undefined,
\* NaN and 0 do not
Truthy(x) == x # Undefined /\ ~IsNaN(x) /\ x # Zero

\* const targetSpacing = timePoints ? duration / (timePoints - 1) : undefined;
\* timePoints is an integer, and 0 stands for a sample count that is not given
TargetSpacing(duration, timePoints) ==
  IF timePoints # 0 THEN Float(Div(duration, FromInt(timePoints - 1))) ELSE Undefined

\* The default of twice the target spacing instead of half of it
DefaultMaxStepDouble(targetSpacing) ==
  IF Truthy(targetSpacing) THEN Float(Mul(targetSpacing, FromInt(2)))
  ELSE Float(Num(1, 100))

\* const defaultMaxStep = targetSpacing ? targetSpacing / 2 : 0.01;
DefaultMaxStep(targetSpacing) ==
  IF Truthy(targetSpacing) THEN Float(Div(targetSpacing, FromInt(2)))
  ELSE Float(Num(1, 100))

\* const maxStep = maxStepSize || defaultMaxStep;
MaxStep(maxStepSize, duration, timePoints) ==
  IF Truthy(maxStepSize) THEN maxStepSize
  ELSE DefaultMaxStep(TargetSpacing(duration, timePoints))

\* tInterp[i] = t0 + (i * duration) / (timePoints - 1), for the i-th of the points
\* counted from 1
GridTime(t0, duration, timePoints, i) ==
  Float(Add(t0, Float(Div(Float(Mul(FromInt(i - 1), duration)),
                          FromInt(timePoints - 1)))))

\* The index the search of interpolateMulti stops at when it starts from i:
\* while (i < tOriginal.length - 1 && tOriginal[i + 1] < t) i++
RECURSIVE Bracket(_, _, _)
Bracket(tOriginal, t, i) ==
  IF i < Len(tOriginal) /\ Less(tOriginal[i + 1], t)
  THEN Bracket(tOriginal, t, i + 1) ELSE i

\* The state interpolateMulti returns for the query time t when the search stopped
\* at i; the arithmetic on states is exact
Interpolate(tOriginal, yOriginal, t, i) ==
  IF i = Len(tOriginal) THEN yOriginal[i]
  ELSE IF tOriginal[i] = t THEN yOriginal[i]
  ELSE Add(yOriginal[i],
           Mul(Div(Sub(t, tOriginal[i]), Sub(tOriginal[i + 1], tOriginal[i])),
               Sub(yOriginal[i + 1], yOriginal[i])))

interpolateMulti(tOriginal, yOriginal, tNew) ==
  [k \in 1..Len(tNew) |->
     Interpolate(tOriginal, yOriginal, tNew[k], Bracket(tOriginal, tNew[k], 1))]

\* solveODE(func, { initialConditions: [0], timeSpan: [t0, tf], timePoints,
\* tolerance, minStepSize, maxStepSize }): the frame when the loop is first reached.
\* No option is checked and nothing is thrown
CallSolveODE(t0, tf, timePoints, tolerance, minStepSize, maxStepSize) ==
  /\ pc = "idle"
  /\ \E duration \in {Float(Sub(tf, t0))} :
     \E maxStep \in {MaxStep(maxStepSize, duration, timePoints)} :
       solver' = [h |-> Undefined, at |-> "loop", t0 |-> t0, tf |-> tf,
                  timePoints |-> timePoints, duration |-> duration,
                  tolerance |-> tolerance, errorNorm |-> Undefined,
                  currentT |-> t0, stepSize |-> maxStep,
                  minStepSize |-> minStepSize, maxStep |-> maxStep,
                  currentY |-> Zero, tResult |-> <<t0>>, yResult |-> <<Zero>>,
                  yNext5 |-> Undefined, iterations |-> 0]
  /\ pc' = "solveODE"
  /\ thrown' = ""
  /\ result' = NoResult
  /\ UNCHANGED <<field, generator, generated, streamVars, heap>>

\* One iteration of the while loop.  slope is the weighted slope of the fifth-order
\* estimate and gap the distance between the two estimates rk45Step returns for a
\* step that is not empty; with h = 0 both estimates are the state itself
Step(slope, gap) ==
  /\ pc = "solveODE"
  /\ solver.at = "loop"
  /\ Less(solver.currentT, solver.tf)
  /\ solver.iterations < MaxIterations
  /\ \E h \in {Clamp(solver.currentT, solver.stepSize, solver.tf)} :
     \E yNext5 \in {Add(solver.currentY, Mul(h, slope))} :
     \E errorNorm \in {IF IsNaN(h) THEN NaN ELSE IF h = Zero THEN Zero ELSE gap} :
       IF Accepts(errorNorm, solver.tolerance, h, solver.minStepSize)
       THEN \E currentT \in {Float(Add(solver.currentT, h))} :
              solver' = [solver EXCEPT
                !.currentT = currentT,
                !.currentY = yNext5,
                !.tResult = Append(solver.tResult, currentT),
                !.yResult = Append(solver.yResult, yNext5),
                !.stepSize =
                   IF Greater(errorNorm, Zero)
                   THEN Min(solver.maxStep,
                            Float(Mul(h, GrowFactor(solver.tolerance, errorNorm))))
                   ELSE h,
                !.h = h, !.yNext5 = yNext5, !.errorNorm = errorNorm,
                !.iterations = solver.iterations + 1]
       ELSE solver' = [solver EXCEPT
                !.stepSize =
                   Max(solver.minStepSize,
                       Float(Mul(h, ShrinkFactor(solver.tolerance, errorNorm)))),
                !.h = h, !.yNext5 = yNext5, !.errorNorm = errorNorm,
                !.iterations = solver.iterations + 1]
  /\ UNCHANGED <<field, generator, thrown, pc, result, generated, streamVars, heap>>

\* The loop condition fails.  With a sample count that differs from the number of
\* recorded points solveODE returns the uniform grid and the states interpolated on
\* it, and otherwise the recorded trajectory
Finish ==
  /\ pc = "solveODE"
  /\ solver.at = "loop"
  /\ ~Less(solver.currentT, solver.tf)
  /\ solver' = [solver EXCEPT !.at = "done"]
  /\ result' =
       IF solver.timePoints # 0 /\ Len(solver.tResult) # solver.timePoints
       THEN \* tInterp and yInterp
            LET tInterp == [i \in 1..solver.timePoints |->
                              GridTime(solver.t0, solver.duration, solver.timePoints, i)]
            IN  [y |-> interpolateMulti(solver.tResult, solver.yResult, tInterp),
                 t |-> tInterp]
       ELSE [y |-> solver.yResult, t |-> solver.tResult]
  /\ UNCHANGED <<field, generator, thrown, pc, generated, streamVars, heap>>

Tolerance == Num(1, 1000)

\* <<t0, tf, timePoints, tolerance, minStepSize, maxStepSize>>: spans of several
\* maximum steps with a positive, a zero and a negative tolerance, spans one step
\* covers, and calls with a sample count that leave the maximum step to its default
SolveCalls ==
  {<<FromInt(8), FromInt(9), 0, tol, Num(1, 16), Num(1, 4)>> :
     tol \in {Tolerance, Zero, Neg(Tolerance)}}
  \cup
  {<<t0, tf, 0, Tolerance, Num(1, 16), FromInt(16)>> :
     t0 \in {Zero, Num(3, 8), Num(19, 256)}, tf \in {FromInt(1), Num(267, 128)}}
  \cup
  {<<Zero, FromInt(1), timePoints, Tolerance, Num(1, 16), Undefined>> :
     timePoints \in {2, 3}}

\* <<slope, gap>>: the estimates agree, differ by less than the tolerance, by the
\* tolerance, and by far more
Estimates ==
  {<<FromInt(1), Zero>>, <<FromInt(1), Div(Tolerance, FromInt(243))>>,
   <<FromInt(-2), Tolerance>>, <<FromInt(3), Mul(Tolerance, FromInt(7776))>>}

NextSolver ==
  \/ \E c \in SolveCalls : CallSolveODE(c[1], c[2], c[3], c[4], c[5], c[6])
  \/ \E e \in Estimates : Step(e[1], e[2])
  \/ Finish
  \/ Return

SpecSolver == Init /\ [][NextSolver]_vars

(***************************************************************************)
(* The pathology transforms applied to parameter objects, and the calls    *)
(* of the generator that read DEFAULT_ECGSYN_PARAMS and customParams       *)
(***************************************************************************)
Families == {"enhanced", "baseline"}
FamilyKeys(family) == IF family = "enhanced" THEN EnhancedKeys ELSE BaselineKeys

\* The module's own defaults, and parameters a caller has written out
CallerBase ==
  [DEFAULT_ECGSYN_PARAMS EXCEPT !.P = Wave(Num(1, 5), Num(1, 10), Pi(-1, 3)),
                                !.heartRate = FromInt(70)]
Bases == {DEFAULT_ECGSYN_PARAMS, CallerBase}

\* FAMILY[pathology](base), twice over the same base; r1 and r2 are what Math.random()
\* returns during the first and the second application
ApplyTransform(family, pathology, base, r1, r2) ==
  /\ pc = "idle"
  /\ \E own \in {IF base = DEFAULT_ECGSYN_PARAMS
                 THEN [heap |-> heap, ref |-> DefaultRef]
                 ELSE NewObject(heap, base, <<>>)} :
     \E first \in {transform(own.heap, family, pathology, own.ref, r1)} :
     \E second \in {transform(first.heap, family, pathology, own.ref, r2)} :
       /\ heap' = second.heap
       /\ result' = [pathology |-> pathology, base |-> own.ref, family |-> family,
                     before |-> base, first |-> first.ref, second |-> second.ref]
  /\ pc' = "transform"
  /\ thrown' = ""
  /\ UNCHANGED <<field, generator, generated, streamVars, solver>>

CustomChoices ==
  {Undefined, [heartRate |-> FromInt(120)],
   [P |-> Wave(Num(1, 5), Num(1, 10), Pi(-1, 3)), heartRate |-> FromInt(70)]}

ParamOptions ==
  {Options(Num(1, 50), Undefined, p, Undefined, c, Undefined) :
     p \in Pathologies, c \in CustomChoices}

ParamLeadOptions ==
  {Options(Num(1, 250), Undefined, p, Undefined, c, Undefined) :
     p \in {"normal", "stemi"}, c \in CustomChoices}

ParamStreamOptions ==
  {Options(Num(1, 64), Undefined, p, Undefined, c, Undefined) :
     p \in {"normal", "stemi", "atrialFibrillation"}, c \in CustomChoices}

NextParams ==
  \/ Construct(FromInt(250))
  \/ \E family \in Families : \E pathology \in FamilyKeys(family) : \E base \in Bases :
       \E r1 \in RandVals : \E r2 \in RandVals :
         ApplyTransform(family, pathology, base, r1, r2)
  \/ \E o \in ParamOptions : \E rnd \in Rnds(o) : Generate(o, rnd)
  \/ \E o \in ParamLeadOptions : \E rnd \in Rnds(o) : MultiLead(o, <<"I", "aVR">>, rnd)
  \/ \E o \in ParamStreamOptions : \E rnd \in StreamRnds(o) :
       StartStream(o, Num(1, 128), rnd)
  \/ Pull
  \/ Return

SpecParams == Init /\ [][NextParams]_vars

(***************************************************************************)
(* ECGGenerator.addSTElevation on arrays.  An array is an object of heap;   *)
(* the caller's signal and time arrays are allocated before the call.      *)
(***************************************************************************)
ElevationLen == 4

\* A variant that would write the elevation into the signal array it was given
addSTElevationInPlace(h, signal, time) ==
  [heap |-> [h EXCEPT ![signal] = Flat(addSTElevation(h[signal], h[time]))],
   ref |-> signal]

\* const result = [...signal]; the loop writes to result only, and result is returned
addSTElevationArray(h, signal, time) ==
  [heap |-> Append(h, Flat(addSTElevation(h[signal], h[time]))), ref |-> Len(h) + 1]

\* this.addSTElevation(signal, time) with arrays the caller holds
CallAddSTElevation(signal, time) ==
  /\ pc = "idle"
  /\ generator # NoGenerator
  /\ \E call \in {addSTElevationArray(heap \o <<time, signal>>,
                                       Len(heap) + 2, Len(heap) + 1)} :
       /\ heap' = call.heap
       /\ result' = [time |-> Len(heap) + 1, signal |-> Len(heap) + 2,
                     before |-> [time |-> time, signal |-> signal],
                     returned |-> call.ref]
  /\ pc' = "addSTElevation"
  /\ thrown' = ""
  /\ UNCHANGED <<field, generator, generated, streamVars, solver>>

\* Time arrays of ElevationLen samples on grids of several spacings, starting before,
\* at and inside the ST window of the first beat and in the second beat
ElevationTimes ==
  {[i \in 1..ElevationLen |-> Add(start, Mul(FromInt(i - 1), step))] :
     start \in {Zero, Num(7, 25), Num(3, 10), Num(9, 25), Num(6, 7), Num(8, 7)},
     step \in {Num(1, 250), Num(1, 50), Num(1, 10)}}

\* Signal arrays of ElevationLen samples, in tenths of a millivolt
ElevationSignals == {[i \in 1..ElevationLen |-> Num(z[i], 10)] : z \in [1..ElevationLen -> ZVals]}

NextElevation ==
  \/ Construct(FromInt(250))
  \/ \E signal \in ElevationSignals : \E time \in ElevationTimes :
       CallAddSTElevation(signal, time)
  \/ Return

SpecElevation == Init /\ [][NextElevation]_vars

(***************************************************************************)
(* Properties of generate and of the constructor                           *)
(***************************************************************************)
Returned == pc = "generate"
EffectiveRate == OrDefault(result.options.samplingRate, generator.samplingRate)
Product == ToFloat(Mul(result.options.duration, EffectiveRate))
Regular == result.options.pathology # "atrialFibrillation"

\* C1: for every pathology other than atrialFibrillation, every duration > 0 and
\* sampling rate, signal.length and time.length both equal
\* round(duration * samplingRate)
C1_LengthIsRounded ==
  Returned /\ Regular =>
    /\ Len(result.value.signal) = Round(Product)
    /\ Len(result.value.time) = Round(Product)

\* C2: in every returned result time and signal have the same length, whatever the
\* pathology and the noise components: post-processing and noise add or drop no
\* sample of one array without the other
C2_TimeSignalAligned ==
  Returned => Len(result.value.time) = Len(result.value.signal)

\* A returned noisy atrialFibrillation trace from which the resampling dropped or
\* repeated samples
C2_Witness ==
  /\ Returned /\ ~Regular
  /\ result.options.noise # Undefined
  /\ Len(result.value.time) > 0
  /\ Len(result.value.time) # Ceil(Product)

Ordered(time) == \A i \in 1..(Len(time) - 1) : LessEq(time[i], time[i + 1])

\* C3: in every returned result the time array is ordered, time[i] <= time[i+1],
\* for every pathology including atrialFibrillation
C3_TimeOrdered == Returned /\ Len(result.value.time) > 1 => Ordered(result.value.time)

\* C9: generate with a pathology identifier outside the enumeration fails with an
\* error and returns no trace
C9_UnknownPathologyFails ==
  Returned /\ result.options.pathology \notin EnhancedKeys => thrown # ""

C11_GenerateRateValidated ==
  Returned /\ Less(result.value.samplingRate, FromInt(MinSamplingRate)) => thrown # ""

\* The parameters the returned call handed to the integrator
EffectiveParams == generateParams(result.options, result.rnd.hr)
NonPositive(a) == LessEq(a, Zero)
InvalidParameters ==
  \/ NonPositive(result.value.metadata.duration)
  \/ NonPositive(EffectiveParams.heartRate)
  \/ \E w \in WaveNames : NonPositive(EffectiveParams[w].width)

\* C12: generate rejects a duration <= 0, an effective heart rate <= 0 and any wave
\* width <= 0 (after the pathology transform and customParams) with a configuration
\* error, before any integration step
C12_InvalidParametersRejected ==
  Returned /\ InvalidParameters => thrown # ""

(***************************************************************************)
(* Properties of generateStream                                            *)
(***************************************************************************)
Streaming == pc = "stream"
Last(seq) == seq[Len(seq)]

\* The cumulative duration of the first k delivered chunks, summed as the loop sums it
RECURSIVE Elapsed(_)
Elapsed(k) ==
  IF k = 0 THEN Zero
  ELSE ToFloat(Add(Elapsed(k - 1), delivered[k].metadata.duration))

\* C4: the k-th chunk pulled has its time values offset by the cumulative duration of
\* the chunks before it, so its first time sample is that duration (k * c); its time
\* values are ordered; and it does not start before the previous chunk's range ends
C4_ChunksContiguous ==
  Streaming =>
    \A k \in 1..Len(delivered) :
      /\ Len(delivered[k].time) > 0
      /\ delivered[k].time[1] = Elapsed(k - 1)
      /\ Ordered(delivered[k].time)
      /\ k > 1 /\ Len(delivered[k - 1].time) > 0 =>
           LessEq(Last(delivered[k - 1].time), delivered[k].time[1])

FiniteStream == Streaming /\ stream.options.duration \notin {Undefined, Zero}
ChunkCount == Ceil(Div(stream.options.duration, stream.chunkDuration))

\* C5: a stream with finite total duration D and chunk duration c yields exactly
\* ceil(D / c) chunks and then completes; every chunk has duration
\* min(c, D - already generated), and the chunk durations sum to D
C5_FiniteStreamChunks ==
  FiniteStream =>
    /\ Len(delivered) <= ChunkCount
    /\ stream.at = "done" =>
         /\ Len(delivered) = ChunkCount
         /\ Elapsed(Len(delivered)) = stream.options.duration
    /\ \A k \in 1..Len(delivered) :
         delivered[k].metadata.duration =
           Min(stream.chunkDuration,
               ToFloat(Sub(stream.options.duration, Elapsed(k - 1))))

\* C6: a stream with no duration given never completes, every pull returns a chunk,
\* and after n pulls generate has run exactly n times: none before the first pull,
\* none between pulls
C6_UnboundedStreamIsLazy ==
  Streaming /\ stream.options.duration = Undefined =>
    /\ stream.at # "done"
    /\ generated = pulls
    /\ Len(delivered) = pulls
    /\ pulls > 0 => result = [done |-> FALSE]
    /\ pulls = 0 => stream.at = "start"

\* An unbounded stream of one-second chunks that has been pulled past ten seconds
C6_Witness ==
  /\ Streaming /\ stream.options.duration = Undefined
  /\ stream.chunkDuration = FromInt(1)
  /\ pulls = 11
  /\ generated = 11

(***************************************************************************)
(* Properties of solveODE                                                  *)
(***************************************************************************)
Solving == pc = "solveODE"
ValidCall ==
  /\ Greater(solver.tolerance, Zero)
  /\ Greater(solver.minStepSize, Zero)
  /\ Greater(solver.tf, solver.t0)

\* A step of the behaviour that is one iteration of the stepping loop
Iteration ==
  /\ Solving /\ solver.at = "loop" /\ solver'.at = "loop"
  /\ solver'.iterations = solver.iterations + 1
AcceptedStep == Len(solver'.tResult) = Len(solver.tResult) + 1

\* C13: solveODE called with tolerance <= 0 fails with a configuration error and does
\* not start stepping
C13_ToleranceValidated ==
  Solving /\ LessEq(solver.tolerance, Zero) => thrown # "" /\ solver.iterations = 0

\* C14: for tolerance > 0, minStepSize > 0 and tf > t0 the stepping loop terminates
\* for every sequence of finite error norms and never stalls: no iteration leaves
\* both currentT and the step size where they were (the same error norm would then
\* repeat that iteration without end)
C14_LoopNeverStalls ==
  [][Iteration /\ ValidCall =>
       ~(solver'.currentT = solver.currentT /\ solver'.stepSize = solver.stepSize)]_vars

StrictlyIncreasing(time) == \A i \in 1..(Len(time) - 1) : Less(time[i], time[i + 1])

\* C15: the trajectory solveODE records covers [t0, tf]: its first time is t0, its
\* times are strictly increasing, none exceeds tf at any point of the run, and when
\* the loop has ended the last recorded time is exactly tf
C15_TrajectoryCoversSpan ==
  Solving /\ ValidCall =>
    /\ solver.tResult[1] = solver.t0
    /\ StrictlyIncreasing(solver.tResult)
    /\ \A i \in 1..Len(solver.tResult) : LessEq(solver.tResult[i], solver.tf)
    /\ solver.at = "done" => Last(solver.tResult) = solver.tf

\* C16: a step of size h is accepted exactly when errorNorm < tolerance or h is at or
\* below the minimum step size; an accepted step advances the time by h, makes the
\* fifth-order estimate the state and appends exactly one point; a rejected step
\* leaves time, state and trajectory as they were and only makes h smaller
C16_StepAcceptance ==
  [][Iteration =>
       /\ AcceptedStep <=>
            \/ Less(solver'.errorNorm, solver.tolerance)
            \/ LessEq(solver'.h, solver.minStepSize)
       /\ AcceptedStep =>
            /\ solver'.currentT = Float(Add(solver.currentT, solver'.h))
            /\ Greater(solver'.currentT, solver.currentT)
            /\ solver'.currentY = solver'.yNext5
            /\ solver'.tResult = Append(solver.tResult, solver'.currentT)
            /\ solver'.yResult = Append(solver.yResult, solver'.yNext5)
       /\ ~AcceptedStep =>
            /\ solver'.currentT = solver.currentT
            /\ solver'.currentY = solver.currentY
            /\ solver'.tResult = solver.tResult
            /\ solver'.yResult = solver.yResult
            /\ Less(solver'.stepSize, solver'.h)]_vars

\* C21: with minStepSize <= maxStep the step the loop attempts next is never above
\* maxStep and never below minStepSize, unless it is the step clamped to the
\* distance that remains to tf
C21_StepSizeWithinBounds ==
  /\ Solving /\ solver.at = "loop" /\ ValidCall
  /\ LessEq(solver.minStepSize, solver.maxStep)
  /\ Less(solver.currentT, solver.tf)
  => /\ LessEq(Clamp(solver.currentT, solver.stepSize, solver.tf), solver.maxStep)
     /\ \/ LessEq(solver.minStepSize, Clamp(solver.currentT, solver.stepSize, solver.tf))
        \/ Clamp(solver.currentT, solver.stepSize, solver.tf) # solver.stepSize

\* The call left the maximum step to its default and asked for at least two samples,
\* and solveODE has returned
Resampling ==
  /\ Solving /\ solver.at = "done"
  /\ solver.timePoints >= 2
  /\ solver.maxStep = DefaultMaxStep(TargetSpacing(solver.duration, solver.timePoints))

\* The k-th returned time lies strictly between the recorded times j and j + 1
Between(k, j) ==
  /\ Less(solver.tResult[j], result.t[k])
  /\ Less(result.t[k], solver.tResult[j + 1])

\* The k-th returned state is the recorded state of a recorded time equal to the
\* query, the last recorded state for a query after the last recorded time, or the
\* point of the straight line through the two recorded samples that enclose the query
Bracketed(k) ==
  \/ \E j \in 1..Len(solver.tResult) :
       solver.tResult[j] = result.t[k] /\ result.y[k] = solver.yResult[j]
  \/ Less(Last(solver.tResult), result.t[k]) /\ result.y[k] = Last(solver.yResult)
  \/ \E j \in 1..(Len(solver.tResult) - 1) :
       /\ Between(k, j)
       /\ Mul(Sub(result.y[k], solver.yResult[j]),
              Sub(solver.tResult[j + 1], solver.tResult[j]))
            = Mul(Sub(solver.yResult[j + 1], solver.yResult[j]),
                  Sub(result.t[k], solver.tResult[j]))

LeadsReturned == pc = "leads"

\* The scalar the lead table gives each of the twelve leads
C7_Scalar ==
  [I |-> Num(8, 10), III |-> Num(6, 10), aVR |-> Num(-5, 10), aVL |-> Num(4, 10),
   aVF |-> Num(7, 10), V1 |-> Num(3, 10), V2 |-> Num(5, 10), V3 |-> Num(8, 10),
   V4 |-> FromInt(1), V5 |-> Num(9, 10), V6 |-> Num(7, 10), II |-> FromInt(1)]

\* C7: generateMultiLead generates the source trace once and returns exactly one
\* entry per requested lead name; every entry of one of the twelve leads has the time
\* array, samplingRate, metadata and sample count of the source, and its signal is the
\* source signal multiplied sample by sample by the lead's scalar
C7_LeadsScaleSource ==
  LeadsReturned =>
    /\ generated = 1
    /\ DOMAIN result.value = Range(result.leads)
    /\ \A lead \in DOMAIN result.value \cap DOMAIN C7_Scalar :
         LET entry == result.value[lead]
         IN  /\ entry.time = result.source.time
             /\ entry.samplingRate = result.source.samplingRate
             /\ entry.metadata = result.source.metadata
             /\ Len(entry.signal) = Len(result.source.signal)
             /\ \A i \in 1..Len(entry.signal) :
                  entry.signal[i] = Mul(result.source.signal[i], C7_Scalar[lead])

\* The six default leads returned for a noisy trace of several samples
C7_Witness ==
  /\ LeadsReturned
  /\ result.leads = DefaultLeads
  /\ result.options.noise # Undefined
  /\ Len(result.source.signal) > 1
  /\ result.value["aVF"].signal[1] # result.value["aVL"].signal[1]

\* Math.max(...signal) and Math.min(...signal) of a non-empty signal of finite numbers
SeqMax(signal) == CHOOSE m \in Range(signal) : \A x \in Range(signal) : LessEq(x, m)
SeqMin(signal) == CHOOSE m \in Range(signal) : \A x \in Range(signal) : LessEq(m, x)
Magnitude(a) == <<Abs(a[1]), a[2]>>

\* The source trace is finite and its largest positive value exceeds the magnitude of
\* its most negative value
C8_SourceUpright ==
  /\ Len(result.source.signal) > 0
  /\ \A x \in Range(result.source.signal) : IsFinite(x)
  /\ Greater(SeqMax(result.source.signal), Zero)
  /\ Greater(SeqMax(result.source.signal), Magnitude(SeqMin(result.source.signal)))

\* C8: for leads ['II', 'aVR'] and an upright source trace, max(aVR) < max(II) and
\* abs(min(aVR)) > max(aVR)
C8_AvrInverted ==
  LeadsReturned /\ result.leads = <<"II", "aVR">> /\ C8_SourceUpright =>
    /\ Less(SeqMax(result.value["aVR"].signal), SeqMax(result.value["II"].signal))
    /\ Greater(Magnitude(SeqMin(result.value["aVR"].signal)),
               SeqMax(result.value["aVR"].signal))

\* Leads II and aVR of an upright source trace that also goes below zero
C8_Witness ==
  /\ LeadsReturned /\ result.leads = <<"II", "aVR">> /\ C8_SourceUpright
  /\ Less(SeqMin(result.source.signal), Zero)
  /\ Greater(SeqMax(result.value["aVR"].signal), Zero)

(***************************************************************************)
(* Properties of the pathology transforms and of the parameter objects     *)
(***************************************************************************)
Transformed == pc = "transform"

\* C17: a pathology transform is a function of the pathology and of the base
\* parameters alone: its two applications to the same base return equal parameters,
\* whatever the random source yields, for every entry of both families
C17_TransformsArePure ==
  Transformed => Deref(heap, result.first) = Deref(heap, result.second)

CustomUnchanged(options) ==
  options.customParams # Undefined =>
    Deref(heap, CallerRef(InitialHeap, options)) = options.customParams

\* C18: no parameter object is edited in place.  After a transform the base object
\* stands for the parameters it stood for before, 'normal' returns parameters equal
\* to the base, and every other entry returns a new object whose adjusted waves are
\* new objects; during and after every call of generate, generateMultiLead and
\* generateStream DEFAULT_ECGSYN_PARAMS and the caller's customParams are as before
C18_NoInPlaceEdits ==
  /\ Deref(heap, DefaultRef) = DEFAULT_ECGSYN_PARAMS
  /\ \A w \in WaveNames : heap[heap[DefaultRef][w]] = DEFAULT_ECGSYN_PARAMS[w]
  /\ Transformed =>
       /\ Deref(heap, result.base) = result.before
       /\ IF result.family = "enhanced" /\ result.pathology = "normal"
          THEN Deref(heap, result.first) = result.before
          ELSE /\ result.first # result.base
               /\ result.second \notin {result.base, result.first}
               /\ \A w \in WaveNames :
                    Deref(heap, result.first)[w] # result.before[w]
                      => heap[result.first][w] # heap[result.base][w]
  /\ pc \in {"generate", "leads"} => CustomUnchanged(result.options)
  /\ pc = "stream" => CustomUnchanged(stream.options)

\* A transform that adjusts all five waves has been applied to
\* DEFAULT_ECGSYN_PARAMS itself
C18_Witness ==
  /\ Transformed
  /\ result.base = DefaultRef
  /\ result.pathology = "ventricularTachycardia"
  /\ result.family = "enhanced"
  /\ \A w \in WaveNames : Deref(heap, result.first)[w] # DEFAULT_ECGSYN_PARAMS[w]

(***************************************************************************)
(* Properties of the irregular rhythm                                      *)
(***************************************************************************)
\* C19: for atrialFibrillation and a duration above zero generate returns a trace
\* that is not empty and whose last time sample is less than one RR interval,
\* 60 / heartRate seconds, away from the duration, whatever the RR draws
C19_IrregularTraceEndsAtDuration ==
  Returned /\ result.options.pathology = "atrialFibrillation"
           /\ Greater(result.value.metadata.duration, Zero)
    => /\ Len(result.value.time) > 0
       /\ Less(Magnitude(Sub(Last(result.value.time), result.value.metadata.duration)),
               Div(FromInt(60), result.value.metadata.heartRate))

(***************************************************************************)
(* Properties of errors in generateStream                                  *)
(***************************************************************************)
\* The arrays of the k-th delivered chunk: chunks are the last things allocated
TimeRef(k) == Len(heap) - 2 * (Len(delivered) - k) - 1
SignalRef(k) == TimeRef(k) + 1

\* Every delivered chunk has two arrays of its own, and they hold what the consumer
\* received
DeliveredIntact ==
  /\ Len(heap) >= Len(InitialHeap) + 2 * Len(delivered)
  /\ \A k \in 1..Len(delivered) :
       /\ heap[TimeRef(k)] = delivered[k].time
       /\ heap[SignalRef(k)] = delivered[k].signal

\* A pull that runs generate for a chunk
ChunkStep == Streaming /\ pulls' = pulls + 1 /\ generated' = generated + 1
Raises ==
  generateThrows([stream.options EXCEPT !.duration = stream'.currentChunkDuration],
                 stream.rnd.hr)

\* C20: when generating the chunk of a pull raises an error, that pull throws it and
\* no step before does (not the call of generateStream, not an earlier pull); the
\* chunks already delivered stay as they were, each with arrays of its own that
\* later chunks neither share nor write
C20_ChunkErrorsReachTheirPull ==
  [][/\ ChunkStep /\ Raises =>
          thrown' = WaveTypeError /\ delivered' = delivered /\ heap' = heap
     /\ ChunkStep /\ ~Raises =>
          thrown' = "" /\ Len(delivered') = Len(delivered) + 1
     /\ pc' = "stream" /\ ~ChunkStep => thrown' = IF Streaming THEN thrown ELSE ""
     /\ Streaming /\ pc' = "stream" =>
          SubSeq(delivered', 1, Len(delivered)) = delivered
     /\ DeliveredIntact']_vars

\* The third pull of a stream has thrown after two chunks were delivered
C20_Witness ==
  /\ Streaming
  /\ thrown = WaveTypeError
  /\ pulls = 3
  /\ Len(delivered) = 2
  /\ delivered[1].time # delivered[2].time

(***************************************************************************)
(* Properties of the stages of generate                                    *)
(***************************************************************************)
\* The parameters object generate handed to generateECGSyn: the last object the call
\* allocated
Integrated == Deref(heap, Len(heap))

\* The defaults with the requested heart rate, adjusted by the pathology transform
Adjusted ==
  ApplyPathology(result.options.pathology,
                 [DEFAULT_ECGSYN_PARAMS EXCEPT
                    !.heartRate = OrDefault(result.options.heartRate, FromInt(60))],
                 result.rnd.hr)

\* The trace generateECGSyn returned to the call
Clean ==
  generateECGSyn(field, OrDefault(result.options.duration, FromInt(10)),
                 EffectiveRate, Integrated)

\* The trace after the post-processing of the pathology at the heart rate rate
Processed(rate) ==
  PostProcess(generator.samplingRate, result.options.pathology, Clean.time, Clean.ecg,
              rate, result.rnd)

\* C23: the parameters generate integrates with are the defaults with the requested
\* heart rate, adjusted by the pathology transform, with every top-level field of
\* customParams put in place of the adjusted field and every other field kept;
\* metadata.heartRate is the heart rate of these parameters (the requested rate for
\* 'normal' without customParams), and U waves and the RR irregularity use it too
C23_ParametersLayered ==
  Returned =>
    /\ DOMAIN Integrated = DOMAIN Adjusted
    /\ \A k \in DOMAIN Integrated :
         Integrated[k] = IF /\ result.options.customParams # Undefined
                            /\ k \in DOMAIN result.options.customParams
                         THEN result.options.customParams[k]
                         ELSE Adjusted[k]
    /\ result.value.metadata.heartRate = Integrated.heartRate
    /\ (result.options.pathology = "normal" /\ result.options.customParams = Undefined)
         => result.value.metadata.heartRate
              = OrDefault(result.options.heartRate, FromInt(60))
    /\ (/\ result.options.pathology \in {"hypokalemia", "atrialFibrillation"}
        /\ result.options.noise = Undefined)
         => /\ result.value.time = Processed(Integrated.heartRate).time
            /\ result.value.signal = Processed(Integrated.heartRate).signal

\* A returned atrialFibrillation trace for a requested rate of 70 that the transform
\* set to 90 and customParams to 120: the rhythm is the one of 120 beats a minute and
\* differs from those of 70 and of 90
C23_Witness ==
  /\ Returned
  /\ result.options.pathology = "atrialFibrillation"
  /\ result.options.noise = Undefined
  /\ result.options.heartRate = FromInt(70)
  /\ Adjusted.heartRate = FromInt(90)
  /\ result.options.customParams # Undefined
  /\ result.value.metadata.heartRate = FromInt(120)
  /\ result.value.time = Processed(FromInt(120)).time
  /\ result.value.time # Processed(FromInt(90)).time
  /\ result.value.time # Processed(FromInt(70)).time

\* The trace the stages of generate give when they run one after the other on the
\* integrated and scaled trace: the post-processing of the pathology, for
\* atrialFibrillation the fibrillatory baseline and then the irregular rhythm, and
\* last the noise, evaluated at the times the post-processing returned
PostProcessed ==
  IF result.options.pathology = "atrialFibrillation"
  THEN makeIrregular(generator.samplingRate, Clean.time,
                     Flat(addFibrillatoryWaves(Clean.ecg, Clean.time, result.rnd.u)),
                     Integrated.heartRate, result.rnd.rr)
  ELSE Processed(Integrated.heartRate)
Noisy(post) ==
  IF result.options.noise # Undefined
  THEN Flat(addNoise(post.signal, post.time, result.options.noise, result.rnd.u))
  ELSE post.signal

\* The irregular rhythm made first and the fibrillatory baseline added to it, and
\* the noise added to the regular trace before the rhythm is made irregular
Irregular(signal) ==
  makeIrregular(generator.samplingRate, Clean.time, signal, Integrated.heartRate,
                result.rnd.rr)
BaselineLast ==
  Flat(addFibrillatoryWaves(Irregular(Clean.ecg).signal, Irregular(Clean.ecg).time,
                            result.rnd.u))
NoiseBeforeRhythm ==
  Irregular(Flat(addNoise(Flat(addFibrillatoryWaves(Clean.ecg, Clean.time,
                                                    result.rnd.u)),
                          Clean.time, result.options.noise, result.rnd.u))).signal

\* C24: generate runs its stages in one order: the pathology transform, the merge of
\* customParams, the integration with its scaling by 80, the post-processing of the
\* pathology and then the noise; for atrialFibrillation the fibrillatory baseline
\* comes before the irregular rhythm and the noise after it, on the irregular times
C24_StagesInOrder ==
  Returned =>
    /\ Integrated = IF result.options.customParams # Undefined
                    THEN Spread(Adjusted, result.options.customParams)
                    ELSE Adjusted
    /\ result.value.time = PostProcessed.time
    /\ result.value.signal = Noisy(PostProcessed)

\* A returned atrialFibrillation trace with baseline wander that neither of the other
\* two orders gives
C24_Witness ==
  /\ Returned
  /\ result.options.pathology = "atrialFibrillation"
  /\ result.options.noise # Undefined
  /\ result.value.time # Clean.time
  /\ result.value.signal # NoiseBeforeRhythm
  /\ result.value.signal # Noisy([time |-> PostProcessed.time, signal |-> BaselineLast])

\* What the integrator returned for the call, and its z component scaled by 80
Output ==
  solveODE(field, Zero, OrDefault(result.options.duration, FromInt(10)),
           NumPoints(OrDefault(result.options.duration, FromInt(10)), EffectiveRate))
Scaled == [i \in 1..Len(Output.z) |-> Mul(Output.z[i], FromInt(80))]

\* C25: a call runs at most one post-processing, the one of its pathology: the ST
\* elevation for stemi, the U waves for hypokalemia, the fibrillatory baseline and
\* then the irregular rhythm for atrialFibrillation; under every other pathology,
\* completeHeartBlock among them, a call without noise returns the integrator's
\* times and its z values times 80 and nothing else
C25_OnePostProcessing ==
  Returned /\ result.options.noise = Undefined =>
    CASE result.options.pathology = "stemi" ->
           /\ result.value.time = Output.t
           /\ result.value.signal = addSTElevation(Scaled, Output.t)
      [] result.options.pathology = "hypokalemia" ->
           /\ result.value.time = Output.t
           /\ result.value.signal
                = addUWaves(Scaled, Output.t, result.value.metadata.heartRate)
      [] result.options.pathology = "atrialFibrillation" ->
           /\ result.value.time = Irregular(Clean.ecg).time
           /\ result.value.signal
                = Irregular(Flat(addFibrillatoryWaves(Scaled, Output.t,
                                                      result.rnd.u))).signal
      [] OTHER ->
           /\ result.value.time = Output.t
           /\ result.value.signal = Scaled

\* A returned completeHeartBlock trace that is the scaled output of the integrator
\* although the ST elevation and the U waves would each have changed it
C25_Witness ==
  /\ Returned
  /\ result.options.pathology = "completeHeartBlock"
  /\ result.options.noise = Undefined
  /\ result.value.signal = Scaled
  /\ addSTElevation(Scaled, Output.t) # Scaled
  /\ addUWaves(Scaled, Output.t, result.value.metadata.heartRate) # Scaled

(***************************************************************************)
(* Properties of the chunks of generateStream                              *)
(***************************************************************************)
\* What a generate call of its own returns for the duration of the k-th chunk
Fresh(k) ==
  generate(field, generator.samplingRate,
           [stream.options EXCEPT !.duration = delivered[k].metadata.duration],
           stream.rnd)

\* The times of the k-th chunk are those of trace moved by the duration generated
\* before the chunk
Offset(k, trace) ==
  \E before \in {Elapsed(k - 1)} :
    /\ Len(delivered[k].time) = Len(trace.time)
    /\ \A i \in 1..Len(trace.time) : delivered[k].time[i] = Add(trace.time[i], before)

Valid(params) ==
  /\ \A w \in WaveNames : Greater(params[w].width, Zero)
  /\ Greater(params.heartRate, Zero)

\* C27: every transform of the enhanced and of the baseline family, applied to
\* parameters whose waves all have a width above zero and whose heart rate is above
\* zero, returns parameters of which the same is true, also when it removes a wave
\* by setting its amplitude to 0
C27_TransformsKeepValidity ==
  Transformed /\ Valid(result.before) =>
    /\ Valid(Deref(heap, result.first))
    /\ Valid(Deref(heap, result.second))

\* A transform has removed the P wave of valid parameters: the amplitude it returns
\* is 0 and the width is not
C27_Witness ==
  /\ Transformed
  /\ Valid(result.before)
  /\ result.before.P.amplitude # Zero
  /\ Deref(heap, result.first).P.amplitude = Zero
  /\ Greater(Deref(heap, result.first).P.width, Zero)
  /\ Deref(heap, result.first).P.width # result.before.P.width

(***************************************************************************)
(* Properties of the ST elevation                                          *)
(***************************************************************************)
Elevated == pc = "addSTElevation"

\* The place of a time in the beat of 60 / 70 seconds the ST elevation assumes, and
\* whether it is strictly inside the window from 35% to 44% of that beat
Phase(t) == Mod(t, Num(60, 70))
InWindow(t) ==
  /\ Less(Mul(Num(35, 100), Num(60, 70)), Phase(t))
  /\ Less(Phase(t), Mul(Num(44, 100), Num(60, 70)))

\* What the call added to the i-th sample
Raise(i) == Sub(heap[result.returned][i], result.before.signal[i])

\* C28: the ST elevation changes only samples whose time modulo 60 / 70 s is strictly
\* inside the window from 35% to 44% of that beat, and raises each of them by more
\* than 0 and at most 0.3; the samples outside, the time array and the signal array
\* it was given stay as they were
C28_ElevationInsideWindow ==
  Elevated =>
    /\ heap[result.signal] = result.before.signal
    /\ heap[result.time] = result.before.time
    /\ result.returned \notin {result.signal, result.time}
    /\ Len(heap[result.returned]) = Len(result.before.signal)
    /\ \A i \in 1..Len(result.before.signal) :
         IF InWindow(result.before.time[i])
         THEN Greater(Raise(i), Zero) /\ LessEq(Raise(i), Num(3, 10))
         ELSE Raise(i) = Zero

\* A call whose first sample is at the start of the window and unchanged and whose
\* second sample is inside and raised
C28_Witness ==
  /\ Elevated
  /\ result.before.time[1] = Num(3, 10)
  /\ Raise(1) = Zero
  /\ InWindow(result.before.time[2])
  /\ Greater(Raise(2), Zero)
  /\ heap[result.signal] # heap[result.returned]

(***************************************************************************)
(* Properties of the sampling rate of a call                               *)
(***************************************************************************)
\* Sampling rates a generator can be constructed with
ConstructibleRates ==
  {rate \in {OrDefault(r, FromInt(1000)) : r \in CtorRates} : ~ConstructThrows(rate)}

\* C29: a call that names its samplingRate returns the time and signal it would
\* return on a generator constructed with any other rate, given the same options and
\* the same random draws, under every pathology, atrialFibrillation included
C29_ConstructorRateIrrelevant ==
  Returned /\ result.options.samplingRate # Undefined =>
    \A rate \in ConstructibleRates :
      \E other \in {generate(field, rate, result.options, result.rnd)} :
        /\ other.time = result.value.time
        /\ other.signal = result.value.signal

(***************************************************************************)
(* Properties of the choice between the two families                       *)
(***************************************************************************)
\* The defaults with the requested heart rate
Requested ==
  [DEFAULT_ECGSYN_PARAMS EXCEPT
     !.heartRate = OrDefault(result.options.heartRate, FromInt(60))]

\* The condition under which generate calls an entry of the baseline family
FallsBack(pathology) ==
  /\ pathology # "normal"
  /\ pathology \notin EnhancedKeys
  /\ pathology \in BaselineKeys

\* What the enhanced entry of the call's own pathology returns, and the requested
\* parameters when the enhanced family has no such entry
Served ==
  IF result.options.pathology \in EnhancedKeys
  THEN ENHANCED_PATHOLOGY_PARAMS(result.options.pathology, Requested, result.rnd.hr)
  ELSE Requested

\* C30: generate looks a pathology up in the enhanced family first and in the
\* baseline family only when the enhanced one has no entry for it; every baseline
\* entry has an enhanced namesake, so the baseline branch is never taken, and the
\* parameters of a call come from the entry of its own pathology and from no other
C30_EnhancedFamilyServes ==
  Returned =>
    /\ BaselineKeys \subseteq EnhancedKeys
    /\ ~FallsBack(result.options.pathology)
    /\ result.options.customParams = Undefined =>
         /\ Integrated = Served
         /\ result.value.metadata.heartRate = Served.heartRate

\* A returned tachycardia trace: both families have an entry, and the heart rate is
\* the enhanced entry's 140 and not the baseline entry's 120
C30_Witness ==
  /\ Returned
  /\ result.options.pathology = "tachycardia"
  /\ result.options.pathology \in BaselineKeys
  /\ result.options.customParams = Undefined
  /\ result.value.metadata.heartRate = FromInt(140)
  /\ PATHOLOGY_PARAMS("tachycardia", Requested).heartRate = FromInt(120)

====
